---- MODULE Spec2Model ----
(***************************************************************************)
(* Model of the end-to-end encryption core of wasp: primitives, X3DH, the  *)
(* Double Ratchet, the session manager and the browser client's receive    *)
(* path.                                                                   *)
(*                                                                         *)
(* Cryptography is symbolic.  A byte string is a flat sequence of          *)
(* naturals; every hash, KDF and key derivation is an injective tagged     *)
(* constructor, Diffie-Hellman is the commutative pairing of two key ids,  *)
(* and AES-GCM opens only under the key, nonce and associated data that    *)
(* sealed it.  The empty sequence stands for null / undefined.             *)
(***************************************************************************)
EXTENDS Integers, Sequences, FiniteSets, TLC

(* ------------------------------------------------------------------ *)
(* Bounds                                                             *)
(* ------------------------------------------------------------------ *)

\* messages (of both parties together) that one run of the ratchet
\* specification records
MaxMsgs == 3

(* ------------------------------------------------------------------ *)
(* Byte strings and numbers                                           *)
(* ------------------------------------------------------------------ *)

None == <<>>

Tag == [priv |-> 1, pub |-> 2, dh |-> 3, rk |-> 4, ck |-> 5, mk |-> 6,
        cipher |-> 7, iv |-> 8, x3dh |-> 9, hex |-> 10, pt |-> 11,
        ad |-> 12, signpub |-> 13, signpriv |-> 14, sig |-> 15, b64 |-> 16,
        mediaKey |-> 17, mediaIv |-> 18, mediaCipher |-> 19, mediaMac |-> 20,
        hmac |-> 21, sha256 |-> 22]

\* new Uint8Array(32)
Zero32 == <<0, 0>>

\* A JavaScript number v is the pair <<hi, lo>> with v = hi * 2^32 + lo and
\* 0 <= lo < 2^32.  Session counters stay below 2^32 (hi = 0); a number
\* read from the wire may have any hi.
Num(k) == <<0, k>>

NumLess(a, b) == a[1] < b[1] \/ (a[1] = b[1] /\ a[2] < b[2])

\* DataView.setUint32 stores ToUint32(v), the value modulo 2^32
ToUint32(v) == v[2]

concat(a, b) == a \o b

toHex(bytes) == <<Tag.hex>> \o bytes

fromHex(hex) == Tail(hex)

(* ------------------------------------------------------------------ *)
(* Primitives                                                         *)
(* ------------------------------------------------------------------ *)

\* k stands for the 32 random bytes drawn by randomPrivateKey()
generateDHKeyPair(k) ==
    [publicKey |-> <<Tag.pub, k>>, privateKey |-> <<Tag.priv, k>>]

dh(privateKey, publicKey) ==
    LET a == privateKey[2]
        b == publicKey[2]
    IN  <<Tag.dh, IF a < b THEN a ELSE b, IF a < b THEN b ELSE a>>

kdfRootKey(rootKey, dhOutput) ==
    [newRootKey |-> <<Tag.rk>> \o dhOutput \o rootKey,
     chainKey   |-> <<Tag.ck>> \o dhOutput \o rootKey \o <<0>>]

\* The last element of a chain key counts the HMAC(., 0x02) steps taken
\* from the chain key that kdfRootKey produced.
kdfChainKey(chainKey) ==
    [messageKey   |-> <<Tag.mk>> \o chainKey,
     nextChainKey |-> [chainKey EXCEPT ![Len(chainKey)] = @ + 1]]

\* the DH outputs one after the other, as the loop of kdfX3DH lays them out
RECURSIVE ikmOf(_)
ikmOf(dhOutputs) ==
    IF dhOutputs = <<>> THEN <<>>
    ELSE Head(dhOutputs) \o ikmOf(Tail(dhOutputs))

kdfX3DH(dhOutputs) == <<Tag.x3dh>> \o ikmOf(dhOutputs)

expandMessageKey(messageKey) ==
    [cipherKey |-> <<Tag.cipher>> \o messageKey,
     iv        |-> <<Tag.iv>> \o messageKey]

\* ciphertext || tag; flip counts the bits changed after sealing
aesgcmEncrypt(key, iv, plaintext, aad) ==
    [key |-> key, iv |-> iv, body |-> plaintext, aad |-> aad, flip |-> 0]

aesgcmDecrypt(key, iv, ciphertext, aad) ==
    IF /\ ciphertext.key = key
       /\ ciphertext.iv = iv
       /\ ciphertext.aad = aad
       /\ ciphertext.flip = 0
    THEN [ok |-> TRUE, plaintext |-> ciphertext.body]
    ELSE [ok |-> FALSE, plaintext |-> None]

(* ------------------------------------------------------------------ *)
(* MKSkipped: a JavaScript Map                                        *)
(* ------------------------------------------------------------------ *)

\* ord lists the entries <<key, value>> in insertion order (the order in
\* which a Map iterates), keys is the set of the keys present.
EmptyMap == [ord |-> <<>>, keys |-> {}]

MapSize(m) == Len(m.ord)

MapHas(m, k) == k \in m.keys

MapGet(m, k) ==
    IF MapHas(m, k)
    THEN m.ord[CHOOSE i \in 1..Len(m.ord) : m.ord[i][1] = k][2]
    ELSE None

\* Map.set: a new key goes last, a present key keeps its place
MapSet(m, k, v) ==
    IF MapHas(m, k)
    THEN [m EXCEPT !.ord = [i \in 1..Len(m.ord) |->
                              IF m.ord[i][1] = k THEN <<k, v>> ELSE m.ord[i]]]
    ELSE [ord |-> Append(m.ord, <<k, v>>), keys |-> m.keys \cup {k}]

MapDelete(m, k) ==
    IF MapHas(m, k)
    THEN [ord |-> SelectSeq(m.ord, LAMBDA e : e[1] # k), keys |-> m.keys \ {k}]
    ELSE m

MapDeleteFirst_DropsLast(m) ==
    IF MapSize(m) = 0 THEN m
    ELSE [ord |-> SubSeq(m.ord, 1, Len(m.ord) - 1),
          keys |-> m.keys \ {m.ord[Len(m.ord)][1]}]

\* newSkipped.keys().next().value, then delete: drops the oldest entry
MapDeleteFirst(m) ==
    IF MapSize(m) = 0 THEN m
    ELSE [ord |-> Tail(m.ord), keys |-> m.keys \ {Head(m.ord)[1]}]

(* ------------------------------------------------------------------ *)
(* Double Ratchet                                                     *)
(* ------------------------------------------------------------------ *)

MAX_SKIP == 1000

MAX_CACHE_SIZE == 2000

initSenderSession_WithReceivingChain(sharedSecret, recipientRatchetPublicKey, k) ==
    LET DHs == generateDHKeyPair(k)
        dhOutput == dh(DHs.privateKey, recipientRatchetPublicKey)
        kdf == kdfRootKey(sharedSecret, dhOutput)
    IN  [DHs |-> DHs, DHr |-> recipientRatchetPublicKey, RK |-> kdf.newRootKey,
         CKs |-> kdf.chainKey, CKr |-> kdf.chainKey, Ns |-> 0, Nr |-> 0, PN |-> 0,
         MKSkipped |-> EmptyMap]

initSenderSession(sharedSecret, recipientRatchetPublicKey, k) ==
    LET DHs == generateDHKeyPair(k)
        dhOutput == dh(DHs.privateKey, recipientRatchetPublicKey)
        kdf == kdfRootKey(sharedSecret, dhOutput)
    IN  [DHs |-> DHs, DHr |-> recipientRatchetPublicKey, RK |-> kdf.newRootKey,
         CKs |-> kdf.chainKey, CKr |-> None, Ns |-> 0, Nr |-> 0, PN |-> 0,
         MKSkipped |-> EmptyMap]

initReceiverSession_WithSendingChain(sharedSecret, ownSignedPreKeyPair) ==
    [DHs |-> ownSignedPreKeyPair, DHr |-> None, RK |-> sharedSecret,
     CKs |-> sharedSecret, CKr |-> None, Ns |-> 0, Nr |-> 0, PN |-> 0,
     MKSkipped |-> EmptyMap]

initReceiverSession(sharedSecret, ownSignedPreKeyPair) ==
    [DHs |-> ownSignedPreKeyPair, DHr |-> None, RK |-> sharedSecret,
     CKs |-> None, CKr |-> None, Ns |-> 0, Nr |-> 0, PN |-> 0,
     MKSkipped |-> EmptyMap]

\* dhRatchetKey (32 bytes) || pn (4 bytes big-endian) || n (4 bytes big-endian)
encodeHeader(header) ==
    header.dhRatchetKey \o <<ToUint32(header.pn), ToUint32(header.n)>>

\* `${toHex(key)}:${n}`
cacheKeyOf(key, n) == toHex(key) \o n

\* What a throwing call leaves behind: no plaintext, no message, no new
\* session.  input is the session object the caller passed in, as it is
\* after the call; reached is the session value the call had built when it
\* threw.  Every step builds a new object ({ ...session }, new Map(...)),
\* so the caller's object is never written.
Thrown_WritesInput(err, input, reached) ==
    [ok |-> FALSE, err |-> err, plaintext |-> None, message |-> None,
     session |-> None, input |-> reached, progressed |-> reached # input]

Thrown(err, input, reached) ==
    [ok |-> FALSE, err |-> err, plaintext |-> None, message |-> None,
     session |-> None, input |-> input, progressed |-> reached # input]

ratchetEncrypt_CountsFirst(session, plaintext, associatedData) ==
    IF session.CKs = None
    THEN Thrown("NotInitialized", session, session)
    ELSE LET ck == kdfChainKey(session.CKs)
             keys == expandMessageKey(ck.messageKey)
             header == [dhRatchetKey |-> session.DHs.publicKey,
                        pn |-> Num(session.PN), n |-> Num(session.Ns + 1)]
             aad == concat(encodeHeader(header), associatedData)
             ciphertext == aesgcmEncrypt(keys.cipherKey, keys.iv, plaintext, aad)
         IN  [ok |-> TRUE, err |-> "", plaintext |-> None,
              message |-> [header |-> header, ciphertext |-> ciphertext],
              session |-> [session EXCEPT !.CKs = ck.nextChainKey,
                                          !.Ns = session.Ns + 1],
              input |-> session, progressed |-> FALSE]

ratchetEncrypt_KeepsChainKey(session, plaintext, associatedData) ==
    IF session.CKs = None
    THEN Thrown("NotInitialized", session, session)
    ELSE LET ck == kdfChainKey(session.CKs)
             keys == expandMessageKey(ck.messageKey)
             header == [dhRatchetKey |-> session.DHs.publicKey,
                        pn |-> Num(session.PN), n |-> Num(session.Ns)]
             aad == concat(encodeHeader(header), associatedData)
             ciphertext == aesgcmEncrypt(keys.cipherKey, keys.iv, plaintext, aad)
         IN  [ok |-> TRUE, err |-> "", plaintext |-> None,
              message |-> [header |-> header, ciphertext |-> ciphertext],
              session |-> [session EXCEPT !.Ns = session.Ns + 1],
              input |-> session, progressed |-> FALSE]

ratchetEncrypt(session, plaintext, associatedData) ==
    IF session.CKs = None
    THEN Thrown("NotInitialized", session, session)
    ELSE LET ck == kdfChainKey(session.CKs)
             keys == expandMessageKey(ck.messageKey)
             header == [dhRatchetKey |-> session.DHs.publicKey,
                        pn |-> Num(session.PN), n |-> Num(session.Ns)]
             aad == concat(encodeHeader(header), associatedData)
             ciphertext == aesgcmEncrypt(keys.cipherKey, keys.iv, plaintext, aad)
         IN  [ok |-> TRUE, err |-> "", plaintext |-> None,
              message |-> [header |-> header, ciphertext |-> ciphertext],
              session |-> [session EXCEPT !.CKs = ck.nextChainKey,
                                          !.Ns = session.Ns + 1],
              input |-> session, progressed |-> FALSE]

trySkippedMessageKey_KeepsKey(session, message, associatedData) ==
    LET cacheKey == cacheKeyOf(message.header.dhRatchetKey, message.header.n)
        skippedMK == MapGet(session.MKSkipped, cacheKey)
    IN  IF skippedMK = None
        THEN [found |-> FALSE, ok |-> FALSE, plaintext |-> None, session |-> None]
        ELSE LET keys == expandMessageKey(skippedMK)
                 aad == concat(encodeHeader(message.header), associatedData)
                 opened == aesgcmDecrypt(keys.cipherKey, keys.iv,
                                         message.ciphertext, aad)
             IN  [found |-> TRUE, ok |-> opened.ok,
                  plaintext |-> opened.plaintext, session |-> session]

trySkippedMessageKey(session, message, associatedData) ==
    LET cacheKey == cacheKeyOf(message.header.dhRatchetKey, message.header.n)
        skippedMK == MapGet(session.MKSkipped, cacheKey)
    IN  IF skippedMK = None
        THEN [found |-> FALSE, ok |-> FALSE, plaintext |-> None, session |-> None]
        ELSE LET keys == expandMessageKey(skippedMK)
                 aad == concat(encodeHeader(message.header), associatedData)
                 opened == aesgcmDecrypt(keys.cipherKey, keys.iv,
                                         message.ciphertext, aad)
             IN  [found |-> TRUE, ok |-> opened.ok,
                  plaintext |-> opened.plaintext,
                  session |-> [session EXCEPT
                                 !.MKSkipped = MapDelete(@, cacheKey)]]

skipOne_NoEviction(st, DHr) ==
    [MKSkipped |-> MapSet(st.MKSkipped, cacheKeyOf(DHr, Num(st.Nr)),
                          kdfChainKey(st.CKr).messageKey),
     CKr |-> kdfChainKey(st.CKr).nextChainKey,
     Nr |-> st.Nr + 1]

skipOne_NoCache(st, DHr) ==
    [MKSkipped |-> st.MKSkipped,
     CKr |-> kdfChainKey(st.CKr).nextChainKey,
     Nr |-> st.Nr + 1]

\* One turn of the while loop of skipMessageKeys; st is (newSkipped, CKr, Nr).
skipOne(st, DHr) ==
    LET evicted == IF MapSize(st.MKSkipped) >= MAX_CACHE_SIZE
                   THEN MapDeleteFirst(st.MKSkipped)
                   ELSE st.MKSkipped
        ck == kdfChainKey(st.CKr)
    IN  [MKSkipped |-> MapSet(evicted, cacheKeyOf(DHr, Num(st.Nr)), ck.messageKey),
         CKr |-> ck.nextChainKey,
         Nr |-> st.Nr + 1]

\* count turns of the loop, split in halves to keep the evaluation shallow
RECURSIVE skipTurns(_, _, _)
skipTurns(st, DHr, count) ==
    IF count = 0 THEN st
    ELSE IF count = 1 THEN skipOne(st, DHr)
    ELSE LET half == skipTurns(st, DHr, count \div 2)
         IN  \* the test makes TLC evaluate the first half before the second
             IF half.Nr >= 0 THEN skipTurns(half, DHr, count - (count \div 2))
             ELSE half

\* while (Nr < until): called with until <= Nr + MAX_SKIP, so it runs
\* until - Nr times, and not at all when until <= Nr
skipLoop(newSkipped, CKr, Nr, until, DHr) ==
    skipTurns([MKSkipped |-> newSkipped, CKr |-> CKr, Nr |-> Nr], DHr,
              IF NumLess(Num(Nr), until) THEN until[2] - Nr ELSE 0)

skipReturn_KeepsCache(session, r) ==
    [ok |-> TRUE,
     session |-> [session EXCEPT !.CKr = r.CKr, !.Nr = r.Nr]]

\* return { ...session, CKr, Nr, MKSkipped: newSkipped }
skipReturn(session, r) ==
    [ok |-> TRUE,
     session |-> [session EXCEPT !.CKr = r.CKr, !.Nr = r.Nr,
                                 !.MKSkipped = r.MKSkipped]]

skipMessageKeys_RejectsMaxSkip(session, until) ==
    IF session.CKr = None
    THEN [ok |-> TRUE, session |-> session]
    ELSE IF NumLess(Num(session.Nr + MAX_SKIP - 1), until)
    THEN [ok |-> FALSE, session |-> None]
    ELSE skipReturn(session,
                    skipLoop(session.MKSkipped, session.CKr, session.Nr,
                             until, session.DHr))

skipMessageKeys(session, until) ==
    IF session.CKr = None
    THEN [ok |-> TRUE, session |-> session]
    ELSE IF NumLess(Num(session.Nr + MAX_SKIP), until)
    THEN [ok |-> FALSE, session |-> None]
    ELSE skipReturn(session,
                    skipLoop(session.MKSkipped, session.CKr, session.Nr,
                             until, session.DHr))

dhRatchetStep_NewPairFirst(session, senderRatchetPublicKey, k) ==
    LET PN == session.Ns
        newDHs == generateDHKeyPair(k)
        dhOut1 == dh(newDHs.privateKey, senderRatchetPublicKey)
        kdf1 == kdfRootKey(session.RK, dhOut1)
        dhOut2 == dh(session.DHs.privateKey, senderRatchetPublicKey)
        kdf2 == kdfRootKey(kdf1.newRootKey, dhOut2)
    IN  [session EXCEPT !.DHs = newDHs, !.DHr = senderRatchetPublicKey,
                        !.RK = kdf2.newRootKey, !.CKs = kdf2.chainKey,
                        !.CKr = kdf1.chainKey, !.Ns = 0, !.Nr = 0, !.PN = PN]

dhRatchetStep_NoSendingChain(session, senderRatchetPublicKey, k) ==
    LET PN == session.Ns
        dhOut1 == dh(session.DHs.privateKey, senderRatchetPublicKey)
        kdf1 == kdfRootKey(session.RK, dhOut1)
        newDHs == generateDHKeyPair(k)
        dhOut2 == dh(newDHs.privateKey, senderRatchetPublicKey)
        kdf2 == kdfRootKey(kdf1.newRootKey, dhOut2)
    IN  [session EXCEPT !.DHs = newDHs, !.DHr = senderRatchetPublicKey,
                        !.RK = kdf2.newRootKey, !.CKs = None,
                        !.CKr = kdf1.chainKey, !.Ns = 0, !.Nr = 0, !.PN = PN]

dhRatchetStep_KeepsCounters(session, senderRatchetPublicKey, k) ==
    LET dhOut1 == dh(session.DHs.privateKey, senderRatchetPublicKey)
        kdf1 == kdfRootKey(session.RK, dhOut1)
        newDHs == generateDHKeyPair(k)
        dhOut2 == dh(newDHs.privateKey, senderRatchetPublicKey)
        kdf2 == kdfRootKey(kdf1.newRootKey, dhOut2)
    IN  [session EXCEPT !.DHs = newDHs, !.DHr = senderRatchetPublicKey,
                        !.RK = kdf2.newRootKey, !.CKs = kdf2.chainKey,
                        !.CKr = kdf1.chainKey, !.Nr = 0]

dhRatchetStep(session, senderRatchetPublicKey, k) ==
    LET PN == session.Ns
        dhOut1 == dh(session.DHs.privateKey, senderRatchetPublicKey)
        kdf1 == kdfRootKey(session.RK, dhOut1)
        newDHs == generateDHKeyPair(k)
        dhOut2 == dh(newDHs.privateKey, senderRatchetPublicKey)
        kdf2 == kdfRootKey(kdf1.newRootKey, dhOut2)
    IN  [session EXCEPT !.DHs = newDHs, !.DHr = senderRatchetPublicKey,
                        !.RK = kdf2.newRootKey, !.CKs = kdf2.chainKey,
                        !.CKr = kdf1.chainKey, !.Ns = 0, !.Nr = 0, !.PN = PN]

\* ratchetDecrypt is written as its successive stages, each an operator
\* over the values the stages before it produced.

decryptWithChain_KeepsChainKey(session, message, associatedData, currentSession) ==
    LET ck == kdfChainKey(currentSession.CKr)
        keys == expandMessageKey(ck.messageKey)
        aad == concat(encodeHeader(message.header), associatedData)
        opened == aesgcmDecrypt(keys.cipherKey, keys.iv, message.ciphertext, aad)
    IN  IF ~opened.ok
        THEN Thrown("AuthFailure", session, currentSession)
        ELSE [ok |-> TRUE, err |-> "", plaintext |-> opened.plaintext,
              message |-> None,
              session |-> [currentSession EXCEPT !.Nr = currentSession.Nr + 1],
              input |-> session, progressed |-> FALSE]

\* the chain step and the AES-GCM opening that end ratchetDecrypt
decryptWithChain(session, message, associatedData, currentSession) ==
    LET ck == kdfChainKey(currentSession.CKr)
        keys == expandMessageKey(ck.messageKey)
        aad == concat(encodeHeader(message.header), associatedData)
        opened == aesgcmDecrypt(keys.cipherKey, keys.iv, message.ciphertext, aad)
    IN  IF ~opened.ok
        THEN Thrown("AuthFailure", session, currentSession)
        ELSE [ok |-> TRUE, err |-> "", plaintext |-> opened.plaintext,
              message |-> None,
              session |-> [currentSession EXCEPT !.CKr = ck.nextChainKey,
                                                 !.Nr = currentSession.Nr + 1],
              input |-> session, progressed |-> FALSE]

\* after skipMessageKeys(currentSession, message.header.n) returned s3;
\* s2 is the session it was given
decryptAfterSkip(session, message, associatedData, s2, s3) ==
    IF ~s3.ok
    THEN Thrown("TooManySkipped", session, s2)
    ELSE IF s3.session.CKr = None
    THEN Thrown("NotInitialized", session, s3.session)
    ELSE decryptWithChain(session, message, associatedData, s3.session)

\* from the skip in the chain of the message on; s2 is currentSession
decryptInChain(session, message, associatedData, s2) ==
    decryptAfterSkip(session, message, associatedData, s2,
                     skipMessageKeys(s2, message.header.n))

\* the ratchet key is new and skipMessageKeys(session, header.pn)
\* returned s1; k is the key id dhRatchetStep draws
decryptAfterRatchet(session, message, associatedData, k, s1) ==
    IF ~s1.ok
    THEN Thrown("TooManySkipped", session, session)
    ELSE decryptInChain(session, message, associatedData,
                        dhRatchetStep(s1.session, message.header.dhRatchetKey, k))

\* trySkippedMessageKey returned skipped
decryptAfterLookup(session, message, associatedData, k, skipped) ==
    IF skipped.found
    THEN IF skipped.ok
         THEN [ok |-> TRUE, err |-> "", plaintext |-> skipped.plaintext,
               message |-> None, session |-> skipped.session, input |-> session,
               progressed |-> FALSE]
         ELSE Thrown("AuthFailure", session, session)
    ELSE IF \/ session.DHr = None
            \/ toHex(message.header.dhRatchetKey) # toHex(session.DHr)
    THEN decryptAfterRatchet(session, message, associatedData, k,
                             skipMessageKeys(session, message.header.pn))
    ELSE decryptInChain(session, message, associatedData, session)

\* k is the key id dhRatchetStep draws if it runs
ratchetDecrypt(session, message, associatedData, k) ==
    decryptAfterLookup(session, message, associatedData, k,
                       trySkippedMessageKey(session, message, associatedData))

\* state.MKSkipped.forEach((v, k) => mkSkipped.push([k, toHex(v)]))
serializeSession(state) ==
    [dhsPublicKey |-> toHex(state.DHs.publicKey),
     dhsPrivateKey |-> toHex(state.DHs.privateKey),
     dhr |-> IF state.DHr # None THEN toHex(state.DHr) ELSE None,
     rk |-> toHex(state.RK),
     cks |-> IF state.CKs # None THEN toHex(state.CKs) ELSE None,
     ckr |-> IF state.CKr # None THEN toHex(state.CKr) ELSE None,
     ns |-> state.Ns, nr |-> state.Nr, pn |-> state.PN,
     mkSkipped |-> [i \in 1..MapSize(state.MKSkipped) |->
                      <<state.MKSkipped.ord[i][1],
                        toHex(state.MKSkipped.ord[i][2])>>]]

\* the entries from the last to the first
RECURSIVE setEntries_Backwards(_, _)
setEntries_Backwards(MKSkipped, entries) ==
    IF entries = <<>> THEN MKSkipped
    ELSE MapSet(setEntries_Backwards(MKSkipped, Tail(entries)),
                Head(entries)[1], fromHex(Head(entries)[2]))

\* for (const [k, v] of entries) MKSkipped.set(k, fromHex(v))
RECURSIVE setEntries(_, _)
setEntries(MKSkipped, entries) ==
    IF entries = <<>> THEN MKSkipped
    ELSE setEntries(MapSet(MKSkipped, Head(entries)[1], fromHex(Head(entries)[2])),
                    Tail(entries))

deserializeSession(s) ==
    [DHs |-> [publicKey |-> fromHex(s.dhsPublicKey),
              privateKey |-> fromHex(s.dhsPrivateKey)],
     DHr |-> IF s.dhr # None THEN fromHex(s.dhr) ELSE None,
     RK |-> fromHex(s.rk),
     CKs |-> IF s.cks # None THEN fromHex(s.cks) ELSE None,
     CKr |-> IF s.ckr # None THEN fromHex(s.ckr) ELSE None,
     Ns |-> s.ns, Nr |-> s.nr, PN |-> s.pn,
     MKSkipped |-> setEntries(EmptyMap, s.mkSkipped)]

(* ------------------------------------------------------------------ *)
(* Identity keys, pre-keys and X3DH                                   *)
(* ------------------------------------------------------------------ *)

\* an optional number (a key id that may be undefined)
Some(x) == <<x>>

generateSigningKeyPair(k) ==
    [publicKey |-> <<Tag.signpub, k>>, privateKey |-> <<Tag.signpriv, k>>]

sign(privateKey, message) == <<Tag.sig, privateKey[2]>> \o message

verify(publicKey, message, signature) ==
    signature = <<Tag.sig, publicKey[2]>> \o message

\* ks, kd: the random bytes of the signing and of the DH key pair
generateIdentityKey(ks, kd, registrationId) ==
    LET signingKeys == generateSigningKeyPair(ks)
        dhKeys == generateDHKeyPair(kd)
    IN  [registrationId |-> registrationId,
         publicKey |-> signingKeys.publicKey,
         privateKey |-> signingKeys.privateKey,
         dhPublicKey |-> dhKeys.publicKey,
         dhPrivateKey |-> dhKeys.privateKey]

generateSignedPreKey(identityKey, keyId, k) ==
    LET pair == generateDHKeyPair(k)
    IN  [keyId |-> keyId, publicKey |-> pair.publicKey,
         privateKey |-> pair.privateKey,
         signature |-> sign(identityKey.privateKey, pair.publicKey)]

\* generateOneTimePreKeys(startId, 1): one key pair, from random bytes k
generateOneTimePreKey(keyId, k) ==
    LET pair == generateDHKeyPair(k)
    IN  [keyId |-> keyId, publicKey |-> pair.publicKey,
         privateKey |-> pair.privateKey]

\* keys.push({ keyId: startId + i, publicKey, privateKey }) for i below
\* count, the i-th pair from random bytes k + i
generateOneTimePreKeys(startId, count, k) ==
    [j \in 1..count |-> generateOneTimePreKey(startId + j - 1, k + j - 1)]

x3dhSend_VerifiesOwnKey(senderIdentityKey, recipientBundle, k) ==
    IF ~verify(senderIdentityKey.publicKey,
               recipientBundle.signedPreKey.publicKey,
               recipientBundle.signedPreKey.signature)
    THEN \* throw new Error('X3DH: Invalid signed prekey signature ...')
         [ok |-> FALSE, err |-> "InvalidSignature", sharedSecret |-> None,
          ephemeralPublicKey |-> None, usedOneTimePreKeyId |-> None]
    ELSE LET ephemeralKeyPair == generateDHKeyPair(k)
             dh1 == dh(senderIdentityKey.dhPrivateKey,
                       recipientBundle.signedPreKey.publicKey)
             dh2 == dh(ephemeralKeyPair.privateKey,
                       recipientBundle.identityDHPublicKey)
             dh3 == dh(ephemeralKeyPair.privateKey,
                       recipientBundle.signedPreKey.publicKey)
             withOpk == recipientBundle.oneTimePreKey # None
             dhOutputs ==
                 IF withOpk
                 THEN <<dh1, dh2, dh3,
                        dh(ephemeralKeyPair.privateKey,
                           recipientBundle.oneTimePreKey.publicKey)>>
                 ELSE <<dh1, dh2, dh3>>
         IN  [ok |-> TRUE, err |-> "",
              sharedSecret |-> kdfX3DH(dhOutputs),
              ephemeralPublicKey |-> ephemeralKeyPair.publicKey,
              usedOneTimePreKeyId |->
                  IF withOpk THEN Some(recipientBundle.oneTimePreKey.keyId)
                  ELSE None]

\* k: the random bytes of the ephemeral key pair
x3dhSend(senderIdentityKey, recipientBundle, k) ==
    IF ~verify(recipientBundle.identitySigningPublicKey,
               recipientBundle.signedPreKey.publicKey,
               recipientBundle.signedPreKey.signature)
    THEN \* throw new Error('X3DH: Invalid signed prekey signature ...')
         [ok |-> FALSE, err |-> "InvalidSignature", sharedSecret |-> None,
          ephemeralPublicKey |-> None, usedOneTimePreKeyId |-> None]
    ELSE LET ephemeralKeyPair == generateDHKeyPair(k)
             dh1 == dh(senderIdentityKey.dhPrivateKey,
                       recipientBundle.signedPreKey.publicKey)
             dh2 == dh(ephemeralKeyPair.privateKey,
                       recipientBundle.identityDHPublicKey)
             dh3 == dh(ephemeralKeyPair.privateKey,
                       recipientBundle.signedPreKey.publicKey)
             withOpk == recipientBundle.oneTimePreKey # None
             dhOutputs ==
                 IF withOpk
                 THEN <<dh1, dh2, dh3,
                        dh(ephemeralKeyPair.privateKey,
                           recipientBundle.oneTimePreKey.publicKey)>>
                 ELSE <<dh1, dh2, dh3>>
         IN  [ok |-> TRUE, err |-> "",
              sharedSecret |-> kdfX3DH(dhOutputs),
              ephemeralPublicKey |-> ephemeralKeyPair.publicKey,
              usedOneTimePreKeyId |->
                  IF withOpk THEN Some(recipientBundle.oneTimePreKey.keyId)
                  ELSE None]

x3dhReceive_SwapsDH(input) ==
    LET dh1 == dh(input.identityKey.dhPrivateKey, input.ephemeralPublicKey)
        dh2 == dh(input.signedPreKey.privateKey, input.senderIdentityDHPublicKey)
        dh3 == dh(input.signedPreKey.privateKey, input.ephemeralPublicKey)
        dhOutputs ==
            IF input.oneTimePreKey # None
            THEN <<dh1, dh2, dh3,
                   dh(input.oneTimePreKey.privateKey, input.ephemeralPublicKey)>>
            ELSE <<dh1, dh2, dh3>>
    IN  kdfX3DH(dhOutputs)

x3dhReceive(input) ==
    LET dh1 == dh(input.signedPreKey.privateKey, input.senderIdentityDHPublicKey)
        dh2 == dh(input.identityKey.dhPrivateKey, input.ephemeralPublicKey)
        dh3 == dh(input.signedPreKey.privateKey, input.ephemeralPublicKey)
        dhOutputs ==
            IF input.oneTimePreKey # None
            THEN <<dh1, dh2, dh3,
                   dh(input.oneTimePreKey.privateKey, input.ephemeralPublicKey)>>
            ELSE <<dh1, dh2, dh3>>
    IN  kdfX3DH(dhOutputs)

(* ------------------------------------------------------------------ *)
(* Session manager                                                    *)
(* ------------------------------------------------------------------ *)

\* A Session is [contactId, contactIdentityKey, ratchetState]; createdAt
\* and updatedAt (Date.now()) are left out.

buildAssociatedData(senderKey, recipientKey) == concat(senderKey, recipientKey)

bufferToBase64(buf) == [base64 |-> buf]

base64ToBuffer(b64) == b64.base64

\* the Session createOutgoingSession returns: nothing of x3dhOutput but
\* the shared secret goes into it
outgoingSessionOf(recipientBundle, k2, x3dhOutput) ==
    IF ~x3dhOutput.ok
    THEN [ok |-> FALSE, session |-> None]
    ELSE [ok |-> TRUE,
          session |->
            [contactId |-> recipientBundle.userId,
             contactIdentityKey |->
                 toHex(recipientBundle.identitySigningPublicKey),
             ratchetState |->
                 initSenderSession(x3dhOutput.sharedSecret,
                                   recipientBundle.signedPreKey.publicKey, k2)]]

\* k1: random bytes of the X3DH ephemeral key, k2: of the first ratchet key
createOutgoingSession(senderIdentityKey, recipientBundle, k1, k2) ==
    outgoingSessionOf(recipientBundle, k2,
                      x3dhSend(senderIdentityKey, recipientBundle, k1))

createIncomingSession(receiverIdentityKey, signedPreKey, oneTimePreKey, senderIdentityDHPublicKey, ephemeralPublicKey, senderUserId, senderIdentitySigningPublicKey) ==
    LET sharedSecret ==
            x3dhReceive([senderIdentityDHPublicKey |-> senderIdentityDHPublicKey,
                         ephemeralPublicKey |-> ephemeralPublicKey,
                         identityKey |-> receiverIdentityKey,
                         signedPreKey |-> signedPreKey,
                         oneTimePreKey |-> oneTimePreKey])
    IN  [contactId |-> senderUserId,
         contactIdentityKey |-> toHex(senderIdentitySigningPublicKey),
         ratchetState |->
             initReceiverSession(sharedSecret,
                                 [publicKey |-> signedPreKey.publicKey,
                                  privateKey |-> signedPreKey.privateKey])]

\* the envelope and the updated session, from the result r of ratchetEncrypt
encryptMessageReturn(session, senderIdentityKey, isFirstMessage, x3dhEphemeralPublicKey, usedOneTimePreKeyId, aad, r) ==
    IF ~r.ok
    THEN [ok |-> FALSE, envelope |-> None, updatedSession |-> None, aad |-> aad]
    ELSE [ok |-> TRUE,
          envelope |->
            [isPreKeyMessage |-> isFirstMessage,
             header |-> [dhRatchetKey |-> toHex(r.message.header.dhRatchetKey),
                         pn |-> r.message.header.pn,
                         n |-> r.message.header.n],
             ciphertext |-> bufferToBase64(r.message.ciphertext),
             messageType |-> "text",
             registrationId |-> senderIdentityKey.registrationId,
             senderIdentityDHKey |->
                 IF isFirstMessage /\ x3dhEphemeralPublicKey # None
                 THEN toHex(senderIdentityKey.dhPublicKey) ELSE None,
             ephemeralKey |->
                 IF isFirstMessage /\ x3dhEphemeralPublicKey # None
                 THEN toHex(x3dhEphemeralPublicKey) ELSE None,
             usedOneTimePreKeyId |->
                 IF isFirstMessage /\ x3dhEphemeralPublicKey # None
                 THEN usedOneTimePreKeyId ELSE None],
          updatedSession |-> [session EXCEPT !.ratchetState = r.session],
          aad |-> aad]

\* x3dhEphemeralPublicKey and usedOneTimePreKeyId are None when the caller
\* leaves them out.  The result also tells the associated data used.
encryptMessage(session, plaintext, senderIdentityKey, isFirstMessage, x3dhEphemeralPublicKey, usedOneTimePreKeyId) ==
    LET aad == buildAssociatedData(senderIdentityKey.publicKey,
                                   fromHex(session.contactIdentityKey))
    IN  encryptMessageReturn(session, senderIdentityKey, isFirstMessage,
                             x3dhEphemeralPublicKey, usedOneTimePreKeyId, aad,
                             ratchetEncrypt(session.ratchetState, plaintext, aad))

\* the plaintext and the updated session, from the result r of ratchetDecrypt
decryptMessageReturn(session, aad, r) ==
    IF ~r.ok
    THEN [ok |-> FALSE, err |-> r.err, plaintext |-> None,
          updatedSession |-> None, aad |-> aad]
    ELSE [ok |-> TRUE, err |-> "", plaintext |-> r.plaintext,
          updatedSession |-> [session EXCEPT !.ratchetState = r.session],
          aad |-> aad]

\* k is the key id a DH ratchet step draws if one runs.  The result also
\* tells the associated data used.
decryptMessage(session, envelope, recipientIdentityKey, senderSigningPublicKey, k) ==
    LET aad == buildAssociatedData(senderSigningPublicKey,
                                   recipientIdentityKey.publicKey)
        message == [header |-> [dhRatchetKey |-> fromHex(envelope.header.dhRatchetKey),
                                pn |-> envelope.header.pn,
                                n |-> envelope.header.n],
                    ciphertext |-> base64ToBuffer(envelope.ciphertext)]
    IN  decryptMessageReturn(session, aad,
                             ratchetDecrypt(session.ratchetState, message, aad, k))

(* ------------------------------------------------------------------ *)
(* CryptoManager and the browser client's send and receive paths      *)
(* ------------------------------------------------------------------ *)

\* The state of a CryptoManager is
\*   [identityKey, sessions, pendingX3dh, spk, opks, opkCounter, uploading,
\*    retains]
\* sessions and pendingX3dh map a contact id to a value or None, spk, opks
\* and opkCounter are the 'wasp-spk', 'wasp-opks' and OPK counter items of
\* localStorage, uploading tells which request of uploadInitialKeys is
\* under way, and
\* retains tells the manager that keeps the X3DH ephemeral key for the
\* first envelope from the one whose getOrCreateSession calls
\* createOutgoingSession.

saveSession(m, session) ==
    [m EXCEPT !.sessions[session.contactId] = session]

getSession(m, contactId) == m.sessions[contactId]

\* the response of GET /keys/:userId/bundle, as getOrCreateSession decodes it
RecipientBundleOf(bundle) ==
    [userId |-> bundle.userId,
     registrationId |-> bundle.registrationId,
     identitySigningPublicKey |-> fromHex(bundle.identitySigningPublicKey),
     identityDHPublicKey |-> fromHex(bundle.identityDHPublicKey),
     signedPreKey |->
         [keyId |-> bundle.signedPreKey.keyId,
          publicKey |-> fromHex(bundle.signedPreKey.publicKey),
          signature |-> fromHex(bundle.signedPreKey.signature)],
     oneTimePreKey |->
         IF bundle.oneTimePreKey # None
         THEN [keyId |-> bundle.oneTimePreKey.keyId,
               publicKey |-> fromHex(bundle.oneTimePreKey.publicKey)]
         ELSE None]

\* the session, the pending entry and the save that end getOrCreateSession
sessionFromX3dh(m, recipientBundle, k2, x3dhOutput) ==
    IF ~x3dhOutput.ok
    THEN [ok |-> FALSE, m |-> m, session |-> None]
    ELSE LET session ==
                 [contactId |-> recipientBundle.userId,
                  contactIdentityKey |->
                      toHex(recipientBundle.identitySigningPublicKey),
                  ratchetState |->
                      initSenderSession(x3dhOutput.sharedSecret,
                                        recipientBundle.signedPreKey.publicKey,
                                        k2)]
             pending == [ephemeralPublicKey |-> x3dhOutput.ephemeralPublicKey,
                         usedOneTimePreKeyId |-> x3dhOutput.usedOneTimePreKeyId]
         IN  [ok |-> TRUE,
              m |-> saveSession(
                        [m EXCEPT !.pendingX3dh[recipientBundle.userId] = pending],
                        session),
              session |-> session]

\* getOrCreateSession from the point where the bundle has arrived, in the
\* manager that keeps the ephemeral key
getOrCreateSession(m, recipientBundle, k1, k2) ==
    sessionFromX3dh(m, recipientBundle, k2,
                    x3dhSend(m.identityKey, recipientBundle, k1))

\* this.saveSession(session); return { session, isNew: true }
savedOutgoing(m, out) ==
    IF ~out.ok
    THEN [ok |-> FALSE, m |-> m, session |-> None]
    ELSE [ok |-> TRUE, m |-> saveSession(m, out.session), session |-> out.session]

\* the same step in the manager that calls createOutgoingSession
getOrCreateSessionOutgoing(m, recipientBundle, k1, k2) ==
    savedOutgoing(m, createOutgoingSession(m.identityKey, recipientBundle, k1, k2))

\* this.saveSession(updatedSession) after encryptMessage returned e
encryptReturn(m, e) ==
    IF ~e.ok
    THEN [ok |-> FALSE, m |-> m, envelope |-> None, aad |-> e.aad]
    ELSE [ok |-> TRUE, m |-> saveSession(m, e.updatedSession),
          envelope |-> e.envelope, aad |-> e.aad]

\* pending is the entry of pendingX3dh that a first message consumes
encryptWith_KeepsPending(m, session, plaintext, isFirstMessage, pending) ==
    encryptReturn(
        m,
        encryptMessage(session, plaintext, m.identityKey, isFirstMessage,
                       IF pending # None THEN pending.ephemeralPublicKey
                       ELSE None,
                       IF pending # None THEN pending.usedOneTimePreKeyId
                       ELSE None))

encryptWith(m, session, plaintext, isFirstMessage, pending) ==
    encryptReturn(
        IF pending # None
        THEN [m EXCEPT !.pendingX3dh[session.contactId] = None]
        ELSE m,
        encryptMessage(session, plaintext, m.identityKey, isFirstMessage,
                       IF pending # None THEN pending.ephemeralPublicKey
                       ELSE None,
                       IF pending # None THEN pending.usedOneTimePreKeyId
                       ELSE None))

encrypt(m, session, plaintext, isFirstMessage) ==
    encryptWith(m, session, plaintext, isFirstMessage,
                IF isFirstMessage THEN m.pendingX3dh[session.contactId]
                ELSE None)

\* this.saveSession(updatedSession) after decryptMessage returned d; when
\* decryptMessage throws nothing is saved
decryptReturn(m, d) ==
    IF ~d.ok
    THEN [ok |-> FALSE, err |-> d.err, plaintext |-> None, m |-> m,
          aad |-> d.aad]
    ELSE [ok |-> TRUE, err |-> "", plaintext |-> d.plaintext,
          m |-> saveSession(m, d.updatedSession), aad |-> d.aad]

decrypt(m, session, envelope, senderSigningPublicKey, k) ==
    decryptReturn(m, decryptMessage(session, envelope, m.identityKey,
                                    senderSigningPublicKey, k))

processWithKeys_SavesFirst(m1, envelope, senderUserId, senderSigningPublicKey, senderIdentityDHPublicKey, k, opk) ==
    IF envelope.ephemeralKey = None
    THEN [ok |-> FALSE, err |-> "TypeError", plaintext |-> None, m |-> m1,
          aad |-> None]
    ELSE LET session == createIncomingSession(m1.identityKey, m1.spk, opk,
                                              senderIdentityDHPublicKey,
                                              fromHex(envelope.ephemeralKey),
                                              senderUserId, senderSigningPublicKey)
         IN  decryptReturn(saveSession(m1, session),
                           decryptMessage(session, envelope, m1.identityKey,
                                          senderSigningPublicKey, k))

\* from createIncomingSession on; m1 is the manager after the one-time
\* pre-key opk has been taken out of the store
processWithKeys(m1, envelope, senderUserId, senderSigningPublicKey, senderIdentityDHPublicKey, k, opk) ==
    IF envelope.ephemeralKey = None
    THEN \* fromHex(undefined)
         [ok |-> FALSE, err |-> "TypeError", plaintext |-> None, m |-> m1,
          aad |-> None]
    ELSE decryptReturn(
             m1,
             decryptMessage(
                 createIncomingSession(m1.identityKey, m1.spk, opk,
                                       senderIdentityDHPublicKey,
                                       fromHex(envelope.ephemeralKey),
                                       senderUserId, senderSigningPublicKey),
                 envelope, m1.identityKey, senderSigningPublicKey, k))

\* opkMap[envelope.usedOneTimePreKeyId]: the stored one-time pre-key the
\* envelope names, if it names one and the store holds it
storedOneTimePreKey(m, envelope) ==
    IF envelope.usedOneTimePreKeyId = None THEN {}
    ELSE {o \in m.opks : o.keyId = envelope.usedOneTimePreKeyId[1]}

processIncomingPreKeyMessage_KeepsKey(m, envelope, senderUserId, senderSigningPublicKey, senderIdentityDHPublicKey, k) ==
    LET found == storedOneTimePreKey(m, envelope)
    IN  processWithKeys(m, envelope, senderUserId,
                        senderSigningPublicKey, senderIdentityDHPublicKey, k,
                        IF found = {} THEN None ELSE CHOOSE o \in found : TRUE)

\* the key found is removed from the store before anything else is done
processIncomingPreKeyMessage(m, envelope, senderUserId, senderSigningPublicKey, senderIdentityDHPublicKey, k) ==
    LET found == storedOneTimePreKey(m, envelope)
    IN  processWithKeys([m EXCEPT !.opks = @ \ found], envelope, senderUserId,
                        senderSigningPublicKey, senderIdentityDHPublicKey, k,
                        IF found = {} THEN None ELSE CHOOSE o \in found : TRUE)

\* The 'message' handler of useWebSocket.  envelopeStr is the parsed JSON:
\* the envelope and, when the sender added it, senderSigningPublicKey.
onMessage(m, from, envelopeStr, k) ==
    LET envelope == envelopeStr.envelope
        session == getSession(m, from)
        viaPreKey == envelope.isPreKeyMessage \/ session = None
    IN  IF viaPreKey
        THEN LET senderSigningPubKey ==
                     IF envelopeStr.senderSigningPublicKey # None
                     THEN fromHex(envelopeStr.senderSigningPublicKey)
                     ELSE Zero32
                 senderDHPubKey ==
                     IF envelope.senderIdentityDHKey # None
                     THEN fromHex(envelope.senderIdentityDHKey)
                     ELSE Zero32
             IN  [branch |-> "x3dh",
                  result |-> processIncomingPreKeyMessage(
                                 m, envelope, from, senderSigningPubKey,
                                 senderDHPubKey, k)]
        ELSE [branch |-> "stored",
              result |-> decrypt(m, session, envelope, Zero32, k)]

(* ------------------------------------------------------------------ *)
(* Specification Spec: two ratchet sessions over an unreliable relay  *)
(* ------------------------------------------------------------------ *)

VARIABLES
    sess,        \* party -> its RatchetSessionState
    sent,        \* party -> the messages it encrypted, with their plaintexts
                 \*   and what the sender held after the call
    delivered,   \* party -> indexes of its messages the peer has decrypted
    orderly,     \* every delivery so far was the oldest undelivered message
    forged,      \* a message that differs from the encrypted one was accepted
    dirty,       \* parties with a call that threw after skipping or ratcheting
    lost,        \* batches of messages encrypted and never delivered
    x3,          \* SpecX3DH: the parties' keys and what the two calls returned
    client,      \* SpecClient: user -> the state of its CryptoManager
    server,      \* SpecClient: user -> its key bundle and queue of OPKs
    fetching,    \* SpecClient: user -> the bundles its getBundle calls return
    wire,        \* SpecClient: every envelope handed to the relay
    handed,      \* SpecClient: how often the relay has delivered each of them
    processed,   \* SpecClient: user -> the envelopes it has decrypted
    issued,      \* SpecClient: user -> its OPKs the server has handed out
    taken,       \* SpecClient: user -> the OPKs it took for an X3DH receive
    relay,       \* SpecRelay, SpecGateway: the relay server's sockets and
                 \*   offline queues; SpecReconnect: the client's socket
    nextKey,     \* next unused key id
    last         \* the last operation and its result

ratchetVars == <<sess, sent, delivered, orderly, forged, dirty, lost>>

clientVars == <<client, server, fetching, wire, handed, processed, issued, taken>>

\* what a specification does not use stays as it starts
RatchetIdle ==
    /\ sess = None /\ sent = None /\ delivered = None
    /\ orderly = TRUE /\ forged = FALSE /\ dirty = {} /\ lost = 0

ClientIdle ==
    /\ client = None /\ server = None /\ fetching = None
    /\ wire = None /\ handed = None /\ processed = None
    /\ issued = None /\ taken = None

Parties == {"A", "B"}

Peer(p) == IF p = "A" THEN "B" ELSE "A"

\* The ratchet never looks into a plaintext: the k-th message recorded in
\* a run carries plaintext k, so that no two messages carry the same one.
PlaintextOf(k) == <<Tag.pt, k>>

\* the associated data both sides use, and another one
AD0 == <<Tag.ad, 1>>

AD1 == <<Tag.ad, 2>>

\* Number of messages A has sent and B has decrypted, in order, before the
\* recorded part of the history starts.
WarmStarts == {0, MAX_SKIP + 2}

\* what the sender holds when ratchetEncrypt has returned res: the public
\* key of DHs, CKs and Ns of the returned session
heldAfter(res) ==
    IF res.ok
    THEN [DHs |-> res.session.DHs.publicKey, CKs |-> res.session.CKs,
          Ns |-> res.session.Ns]
    ELSE None

\* both sessions after B has been handed the message of the result e of
\* A's ratchetEncrypt, d being the result of B's ratchetDecrypt
exchanged(e, d) ==
    [a |-> e.session, b |-> IF d.ok THEN d.session ELSE d.input,
     sent |-> <<[message |-> e.message, plaintext |-> PlaintextOf(0),
               held |-> heldAfter(e)]>>,
     ok |-> d.ok]

handOver(st, e) ==
    exchanged(e, ratchetDecrypt(st.b, e.message, AD0, 3))

\* A encrypts and B decrypts k messages in order, up to the first that B
\* rejects; st holds both sessions and the last message exchanged.
ExchangeOne(st) ==
    handOver(st, ratchetEncrypt(st.a, PlaintextOf(0), AD0))

RECURSIVE Exchange(_, _)
Exchange(st, k) ==
    IF k = 0 THEN st
    ELSE IF k = 1 THEN ExchangeOne(st)
    ELSE LET half == Exchange(st, k \div 2)
         IN  \* the test makes TLC evaluate the first half before the second
             IF half.ok THEN Exchange(half, k - (k \div 2)) ELSE half

NoOp ==
    [op |-> "init", p |-> "A", i |-> 0, kind |-> "", ok |-> TRUE, err |-> "",
     plaintext |-> None]

RatchetInit ==
    \E w \in WarmStarts :
        LET sharedSecret == <<Tag.x3dh, 0>>
            bobSignedPreKey == generateDHKeyPair(1)
            x == Exchange([a |-> initSenderSession(sharedSecret,
                                                   bobSignedPreKey.publicKey, 2),
                           b |-> initReceiverSession(sharedSecret, bobSignedPreKey),
                           sent |-> <<>>, ok |-> TRUE], w)
        IN  /\ sess = [p \in Parties |-> IF p = "A" THEN x.a ELSE x.b]
            /\ sent = [p \in Parties |-> IF p = "A" THEN x.sent ELSE <<>>]
            /\ delivered = [p \in Parties |-> IF p = "A" THEN 1..Len(x.sent) ELSE {}]
            /\ orderly = TRUE
            /\ forged = FALSE
            /\ dirty = {}
            /\ lost = 0
            /\ nextKey = 4
            /\ last = NoOp
            /\ x3 = None /\ relay = None
            /\ ClientIdle

\* party p has called ratchetEncrypt on plaintext pt and got res
Encrypted(p, pt, res) ==
    /\ sess' = [sess EXCEPT ![p] = IF res.ok THEN res.session ELSE res.input]
    /\ sent' = IF res.ok
               THEN [sent EXCEPT ![p] =
                       Append(@, [message |-> res.message, plaintext |-> pt,
                                  held |-> heldAfter(res)])]
               ELSE sent
    /\ last' = [op |-> "encrypt", p |-> p, i |-> Len(sent'[p]), kind |-> "",
                ok |-> res.ok, err |-> res.err, plaintext |-> res.plaintext]

\* ratchetEncrypt by party p; the caller keeps the returned session, or the
\* one it passed in when the call throws.
EncryptUpTo(p, max) ==
    /\ Len(sent["A"]) + Len(sent["B"]) < max
    /\ Encrypted(p, PlaintextOf(Len(sent["A"]) + Len(sent["B"]) + 1),
                 ratchetEncrypt(sess[p],
                                PlaintextOf(Len(sent["A"]) + Len(sent["B"]) + 1),
                                AD0))
    /\ UNCHANGED <<delivered, orderly, forged, dirty, lost, nextKey, x3, clientVars, relay>>

Encrypt(p) == EncryptUpTo(p, MaxMsgs)

\* The decrypting party keeps the returned session, or the one it passed in
\* when the call throws.
AfterDecrypt(p, res) ==
    /\ sess' = [sess EXCEPT ![p] = IF res.ok THEN res.session ELSE res.input]
    /\ dirty' = IF res.progressed THEN dirty \cup {p} ELSE dirty
    /\ nextKey' = IF res.ok /\ res.session.DHs # sess[p].DHs
                  THEN nextKey + 1 ELSE nextKey

\* party p has called ratchetDecrypt on message i of its peer and got res
Delivered(p, i, res) ==
    /\ AfterDecrypt(p, res)
    /\ delivered' = IF res.ok
                    THEN [delivered EXCEPT ![Peer(p)] = @ \cup {i}]
                    ELSE delivered
    /\ last' = [op |-> "deliver", p |-> p, i |-> i, kind |-> "",
                ok |-> res.ok, err |-> res.err, plaintext |-> res.plaintext]

\* The relay hands party p message i of its peer, not yet decrypted by p.
Deliver(p, i) ==
    /\ i \in (1..Len(sent[Peer(p)])) \ delivered[Peer(p)]
    /\ Delivered(p, i, ratchetDecrypt(sess[p], sent[Peer(p)][i].message, AD0,
                                      nextKey))
    /\ orderly' = (orderly /\ \A j \in 1..(i - 1) : j \in delivered[Peer(p)])
    /\ UNCHANGED <<sent, forged, lost, x3, clientVars, relay>>

Replayed(p, i, res) ==
    /\ AfterDecrypt(p, res)
    /\ last' = [op |-> "replay", p |-> p, i |-> i, kind |-> "",
                ok |-> res.ok, err |-> res.err, plaintext |-> res.plaintext]

\* The relay hands party p a message p has already decrypted.
Replay(p, i) ==
    /\ i \in delivered[Peer(p)]
    /\ Replayed(p, i, ratchetDecrypt(sess[p], sent[Peer(p)][i].message, AD0,
                                     nextKey))
    /\ UNCHANGED <<sent, delivered, orderly, forged, lost, x3, clientVars, relay>>

TamperKinds ==
    {"ciphertext", "dhRatchetKey", "pn+1", "n+1", "pn+2^32", "pn-2^32",
     "n+2^32", "n-2^32", "associatedData"}

\* message m with one component changed
Tampered(m, kind, otherKey) ==
    CASE kind = "ciphertext" ->
            [m EXCEPT !.ciphertext.flip = 1]
      [] kind = "dhRatchetKey" ->
            [m EXCEPT !.header.dhRatchetKey = otherKey]
      [] kind = "pn+1" ->
            [m EXCEPT !.header.pn = <<@[1], @[2] + 1>>]
      [] kind = "n+1" ->
            [m EXCEPT !.header.n = <<@[1], @[2] + 1>>]
      [] kind = "pn+2^32" ->
            [m EXCEPT !.header.pn = <<@[1] + 1, @[2]>>]
      [] kind = "pn-2^32" ->
            [m EXCEPT !.header.pn = <<@[1] - 1, @[2]>>]
      [] kind = "n+2^32" ->
            [m EXCEPT !.header.n = <<@[1] + 1, @[2]>>]
      [] kind = "n-2^32" ->
            [m EXCEPT !.header.n = <<@[1] - 1, @[2]>>]
      [] OTHER -> m

\* party p has called ratchetDecrypt on the changed message and got res
TamperedWith(p, i, kind, res) ==
    /\ AfterDecrypt(p, res)
    /\ delivered' = IF res.ok
                    THEN [delivered EXCEPT ![Peer(p)] = @ \cup {i}]
                    ELSE delivered
    /\ forged' = (forged \/ res.ok)
    /\ last' = IF res.ok
               THEN [op |-> "tamper", p |-> p, i |-> i, kind |-> kind,
                     ok |-> TRUE, err |-> "", plaintext |-> res.plaintext]
               ELSE \* a rejected message is recorded by its error alone
                    [NoOp EXCEPT !.op = "tamper", !.ok = FALSE, !.err = res.err]

\* The relay hands party p message i of its peer, not yet decrypted by p,
\* with one component of the message, or of the associated data, changed.
\* A ratchet key is replaced by another ratchet key of the same sender, or
\* by an unused one.
Tamper(p, i, kind) ==
    /\ i \in (1..Len(sent[Peer(p)])) \ delivered[Peer(p)]
    /\ \E otherKey \in {sess[Peer(p)].DHs.publicKey, <<Tag.pub, 0>>} :
        /\ kind = "dhRatchetKey" =>
               otherKey # sent[Peer(p)][i].message.header.dhRatchetKey
        /\ kind # "dhRatchetKey" => otherKey = <<Tag.pub, 0>>
        /\ TamperedWith(p, i, kind,
                        ratchetDecrypt(sess[p],
                                       Tampered(sent[Peer(p)][i].message, kind,
                                                otherKey),
                                       IF kind = "associatedData" THEN AD1
                                       ELSE AD0,
                                       nextKey))
    /\ UNCHANGED <<sent, orderly, lost, x3, clientVars, relay>>

RatchetNext ==
    \/ \E p \in Parties : Encrypt(p)
    \/ \E p \in Parties, i \in 1..MaxMsgs : Deliver(p, i)
    \/ \E p \in Parties, i \in 1..MaxMsgs : Replay(p, i)
    \/ \E p \in Parties, i \in 1..MaxMsgs, kind \in TamperKinds : Tamper(p, i, kind)

vars == <<ratchetVars, x3, clientVars, relay, nextKey, last>>

Init == RatchetInit

Next == RatchetNext

Spec == Init /\ [][Next]_vars

(* ------------------------------------------------------------------ *)
(* Specification SpecSkip: the ratchet with batches of lost messages  *)
(* ------------------------------------------------------------------ *)

\* batches of lost messages in one run
MaxLost == 3

\* count calls of ratchetEncrypt in a row, each on the session the call
\* before returned; split in halves to keep the evaluation shallow
RECURSIVE encryptTurns(_, _)
encryptTurns(session, count) ==
    IF count = 0 THEN session
    ELSE IF count = 1 THEN ratchetEncrypt(session, PlaintextOf(0), AD0).session
    ELSE LET half == encryptTurns(session, count \div 2)
         IN  \* the test makes TLC evaluate the first half before the second
             IF half.Ns >= 0 THEN encryptTurns(half, count - (count \div 2))
             ELSE half

\* A encrypts MAX_SKIP messages that the relay never delivers.
Lose ==
    /\ lost < MaxLost
    /\ sess' = [sess EXCEPT !["A"] = encryptTurns(sess["A"], MAX_SKIP)]
    /\ lost' = lost + 1
    /\ last' = [NoOp EXCEPT !.op = "lose"]
    /\ UNCHANGED <<sent, delivered, orderly, forged, dirty, nextKey, x3, clientVars, relay>>

\* both sessions fresh from initSenderSession and initReceiverSession
SkipInit == RatchetInit /\ sent["A"] = <<>>

\* The relay hands party p the oldest message of its peer that p has not
\* decrypted: only lost messages leave gaps.
DeliverNext(p) == Deliver(p, Cardinality(delivered[Peer(p)]) + 1)

SkipNext ==
    \/ \E p \in Parties : Encrypt(p)
    \/ \E p \in Parties : DeliverNext(p)
    \/ Lose

SpecSkip == SkipInit /\ [][SkipNext]_vars

(* ------------------------------------------------------------------ *)
(* Specification SpecLate: messages that arrive after their sender's  *)
(* ratchet key has been replaced                                      *)
(* ------------------------------------------------------------------ *)

\* messages encrypted in one run
MaxLateMsgs == 4

LateNext ==
    \/ \E p \in Parties : EncryptUpTo(p, MaxLateMsgs)
    \/ \E p \in Parties, i \in 1..MaxLateMsgs : Deliver(p, i)

SpecLate == SkipInit /\ [][LateNext]_vars

(* ------------------------------------------------------------------ *)
(* Specification SpecRace: a caller that uses one session value twice *)
(* ------------------------------------------------------------------ *)

\* party p has called ratchetEncrypt on pt1 and on pt2, both times on the
\* session value it held before the first call, and got r1 and r2; it
\* keeps the session the second call returned.
EncryptedTwice(p, pt1, pt2, r1, r2) ==
    /\ sess' = [sess EXCEPT ![p] = IF r2.ok THEN r2.session ELSE r2.input]
    /\ sent' = IF r1.ok /\ r2.ok
               THEN [sent EXCEPT ![p] =
                       @ \o <<[message |-> r1.message, plaintext |-> pt1,
                               held |-> heldAfter(r1)],
                              [message |-> r2.message, plaintext |-> pt2,
                               held |-> heldAfter(r2)]>>]
               ELSE sent
    /\ last' = [op |-> "encryptTwice", p |-> p, i |-> Len(sent'[p]), kind |-> "",
                ok |-> r1.ok /\ r2.ok, err |-> r2.err, plaintext |-> None]

\* ratchetEncrypt takes the session as an argument and returns the next
\* one: two calls that read the stored session before either result is
\* stored both start from the same value.
EncryptTwice(p) ==
    /\ Len(sent["A"]) + Len(sent["B"]) + 1 < MaxMsgs
    /\ EncryptedTwice(p, PlaintextOf(Len(sent["A"]) + Len(sent["B"]) + 1),
                      PlaintextOf(Len(sent["A"]) + Len(sent["B"]) + 2),
                      ratchetEncrypt(sess[p],
                                     PlaintextOf(Len(sent["A"]) + Len(sent["B"]) + 1),
                                     AD0),
                      ratchetEncrypt(sess[p],
                                     PlaintextOf(Len(sent["A"]) + Len(sent["B"]) + 2),
                                     AD0))
    /\ UNCHANGED <<delivered, orderly, forged, dirty, lost, nextKey, x3, clientVars, relay>>

RaceNext ==
    \/ \E p \in Parties : Encrypt(p)
    \/ \E p \in Parties : EncryptTwice(p)
    \/ \E p \in Parties, i \in 1..MaxMsgs : Deliver(p, i)

SpecRace == Init /\ [][RaceNext]_vars

(* ------------------------------------------------------------------ *)
(* Specification SpecX3DH: one X3DH key agreement                     *)
(* ------------------------------------------------------------------ *)

\* how many values each random key of the agreement is drawn from
KeyChoices == 2

\* the ids of the keys of one role: role r draws from KeyChoices ids of
\* its own
KeyIds(r) == {10 * r + j : j \in 1..KeyChoices}

\* the bundle the server hands out for the receiver
BundleOf(receiver, signedPreKey, oneTimePreKey) ==
    [userId |-> "B",
     registrationId |-> receiver.registrationId,
     identitySigningPublicKey |-> receiver.publicKey,
     identityDHPublicKey |-> receiver.dhPublicKey,
     signedPreKey |-> [keyId |-> signedPreKey.keyId,
                       publicKey |-> signedPreKey.publicKey,
                       signature |-> signedPreKey.signature],
     oneTimePreKey |-> IF oneTimePreKey = None THEN None
                       ELSE [keyId |-> oneTimePreKey.keyId,
                             publicKey |-> oneTimePreKey.publicKey]]

\* initialize() and uploadInitialKeys() of user c; ks, kd, kp, ko are the
\* random bytes of its signing, DH, signed pre-key and one-time pre-key
\* one-time pre-keys uploadInitialKeys generates in one call
OPK_BATCH == 100

ManagerOf(registrationId, ks, kd, kp, ko, opks, retains) ==
    LET ik == generateIdentityKey(ks, kd, registrationId)
    IN  [identityKey |-> ik,
         sessions |-> [d \in Parties |-> None],
         pendingX3dh |-> [d \in Parties |-> None],
         spk |-> generateSignedPreKey(ik, 1, kp),
         opks |-> IF opks = 0 THEN {} ELSE {generateOneTimePreKey(0, ko)},
         opkCounter |-> OPK_BATCH,
         uploading |-> "",
         retains |-> retains]

X3dhInit ==
    \E ka \in KeyIds(1), kb \in KeyIds(2), ks \in KeyIds(3),
       ko \in KeyIds(4) \cup {0}, honest \in BOOLEAN, retains \in BOOLEAN :
        LET sender == generateIdentityKey(ka, ka, 1)
            receiver == generateIdentityKey(kb, kb, 2)
            \* the pre-key is signed by the receiver, or by someone else
            signer == IF honest THEN receiver ELSE sender
            signedPreKey == generateSignedPreKey(signer, 1, ks)
            oneTimePreKey == IF ko = 0 THEN None
                             ELSE generateOneTimePreKey(0, ko)
        IN  x3 = [stage |-> "start",
                  sender |-> sender, receiver |-> receiver,
                  signedPreKey |-> signedPreKey,
                  oneTimePreKey |-> oneTimePreKey,
                  bundle |-> BundleOf(receiver, signedPreKey, oneTimePreKey),
                  \* the sender's CryptoManager, with no session yet
                  manager |-> ManagerOf(1, ka, ka, 0, 0, 0, retains),
                  out |-> None, used |-> None, secret |-> None]
    /\ RatchetIdle /\ ClientIdle
    /\ relay = None
    /\ nextKey = 0
    /\ last = NoOp

\* x3dhSend has returned out and getOrCreateSession made
X3dhSent(out, made) ==
    x3' = [x3 EXCEPT !.stage = IF out.ok THEN "sent" ELSE "refused",
                     !.out = out, !.manager = made.m]

\* The sender's CryptoManager runs getOrCreateSession on the bundle, and
\* in it x3dhSend; a call that throws leaves the manager as it was.
X3dhSend ==
    /\ x3.stage = "start"
    /\ \E k \in KeyIds(5) :
        X3dhSent(x3dhSend(x3.sender, x3.bundle, k),
                 IF x3.manager.retains
                 THEN getOrCreateSession(x3.manager, x3.bundle, k, k + 10)
                 ELSE getOrCreateSessionOutgoing(x3.manager, x3.bundle, k, k + 10))
    /\ UNCHANGED <<ratchetVars, clientVars, nextKey, last, relay>>

\* The receiver runs x3dhReceive on what the first envelope carries, with
\* its signed pre-key and with the one-time pre-key it still holds: the
\* one the bundle offered, or none.
X3dhReceive ==
    /\ x3.stage = "sent"
    /\ \E opk \in {x3.oneTimePreKey, None} :
        x3' = [x3 EXCEPT
                 !.stage = "received",
                 !.used = opk,
                 !.secret = x3dhReceive(
                     [senderIdentityDHPublicKey |-> x3.sender.dhPublicKey,
                      ephemeralPublicKey |-> x3.out.ephemeralPublicKey,
                      identityKey |-> x3.receiver,
                      signedPreKey |-> x3.signedPreKey,
                      oneTimePreKey |-> opk])]
    /\ UNCHANGED <<ratchetVars, clientVars, nextKey, last, relay>>

X3dhNext == X3dhSend \/ X3dhReceive

SpecX3DH == X3dhInit /\ [][X3dhNext]_vars

(* ------------------------------------------------------------------ *)
(* Specification SpecClient: two browser clients and the relay        *)
(* ------------------------------------------------------------------ *)

\* envelopes handed to the relay in one run
MaxEnvelopes == 3

\* times the relay delivers one envelope
MaxDeliveries == 2

\* how many of a user's one-time pre-keys the server still holds
OpksLeft == {0, 1}


\* what POST /keys/bundle and POST /keys/prekeys stored for user c
ServerOf(c, m) ==
    [bundle |-> [userId |-> c,
                 registrationId |-> m.identityKey.registrationId,
                 identitySigningPublicKey |-> toHex(m.identityKey.publicKey),
                 identityDHPublicKey |-> toHex(m.identityKey.dhPublicKey),
                 signedPreKey |-> [keyId |-> m.spk.keyId,
                                   publicKey |-> toHex(m.spk.publicKey),
                                   signature |-> toHex(m.spk.signature)]],
     otpKeys |-> IF m.opks = {} THEN <<>>
                 ELSE LET o == CHOOSE o \in m.opks : TRUE
                      IN  <<[keyId |-> o.keyId, publicKey |-> toHex(o.publicKey)]>>]

ClientInit ==
    \E retains \in BOOLEAN, opks \in OpksLeft :
        LET a == ManagerOf(1, 1, 2, 5, 7, opks, retains)
            b == ManagerOf(2, 3, 4, 6, 8, opks, retains)
        IN  /\ client = [c \in Parties |-> IF c = "A" THEN a ELSE b]
            /\ server = [c \in Parties |->
                           ServerOf(c, IF c = "A" THEN a ELSE b)]
    /\ fetching = [c \in Parties |-> None]
    /\ wire = <<>>
    /\ handed = <<>>
    /\ processed = [c \in Parties |-> {}]
    /\ issued = [c \in Parties |-> <<>>]
    /\ taken = [c \in Parties |-> <<>>]
    /\ nextKey = 9
    /\ last = NoOp
    /\ x3 = None /\ relay = None
    /\ RatchetIdle

\* envelopes on the wire or still to come from a send that is under way
Committed == Len(wire) + Len(fetching["A"]) + Len(fetching["B"])

\* what handleSend hands to the relay, with the plaintext it was made from
\* and, in the first envelope of a new session, the envelopes the sender
\* had been handed by then
Posted(c, envelope, isNew, plaintext) ==
    [from |-> c, to |-> Peer(c),
     envelopeStr |->
         [envelope |-> envelope,
          senderSigningPublicKey |->
              IF isNew THEN toHex(client[c].identityKey.publicKey) ELSE None],
     plaintext |-> plaintext,
     heard |-> IF isNew
               THEN {i \in 1..Len(wire) : wire[i].to = c /\ handed[i] > 0}
               ELSE {}]

SendRecord(c, res) ==
    [op |-> "send", p |-> c, i |-> IF res.ok THEN Len(wire) + 1 ELSE 0,
     kind |-> "", ok |-> res.ok, err |-> "", plaintext |-> None,
     branch |-> "", hadSession |-> FALSE, again |-> FALSE, aad |-> res.aad]

\* handleSend after encrypt has returned res: the envelope is posted
Sent(c, plaintext, isNew, res) ==
    /\ client' = [client EXCEPT ![c] = res.m]
    /\ wire' = IF res.ok
               THEN Append(wire, Posted(c, res.envelope, isNew, plaintext))
               ELSE wire
    /\ handed' = IF res.ok THEN Append(handed, 0) ELSE handed
    /\ last' = SendRecord(c, res)

\* handleSend when a session with the contact is stored
HandleSend(c) ==
    /\ Committed < MaxEnvelopes
    /\ getSession(client[c], Peer(c)) # None
    /\ Sent(c, PlaintextOf(Len(wire) + 1), FALSE,
            encrypt(client[c], getSession(client[c], Peer(c)),
                    PlaintextOf(Len(wire) + 1), FALSE))
    /\ UNCHANGED <<server, fetching, processed, issued, taken, nextKey, x3, ratchetVars, relay>>

consumeOneTimePreKey_Peeks(queue) ==
    [otpk |-> IF queue = <<>> THEN None ELSE Head(queue), rest |-> queue]

\* r.lpop on the user's queue of one-time pre-keys
consumeOneTimePreKey(queue) ==
    [otpk |-> IF queue = <<>> THEN None ELSE Head(queue),
     rest |-> IF queue = <<>> THEN queue ELSE Tail(queue)]

\* GET /keys/:userId/bundle for user u has consumed a one-time pre-key
BundleServed(u, otpk) ==
    /\ server' = [server EXCEPT ![u].otpKeys = otpk.rest]
    /\ issued' = IF otpk.otpk = None THEN issued
                 ELSE [issued EXCEPT ![u] = Append(@, otpk.otpk)]

\* the bundle in the response
BundleResponse(u, otpk) ==
    [userId |-> server[u].bundle.userId,
     registrationId |-> server[u].bundle.registrationId,
     identitySigningPublicKey |-> server[u].bundle.identitySigningPublicKey,
     identityDHPublicKey |-> server[u].bundle.identityDHPublicKey,
     signedPreKey |-> server[u].bundle.signedPreKey,
     oneTimePreKey |-> otpk.otpk]

\* A user other than the two clients asks the server for the bundle of u.
BundleRequest(u) ==
    /\ BundleServed(u, consumeOneTimePreKey(server[u].otpKeys))
    /\ UNCHANGED <<client, fetching, wire, handed, processed, taken, nextKey, x3, ratchetVars, last, relay>>

\* handleSend when no session is stored: getOrCreateSession asks the
\* server for the contact's bundle, and the server attaches the oldest
\* one-time pre-key it holds, if any
HandleSendFetchUpTo(c, max) ==
    /\ Committed < MaxEnvelopes
    /\ getSession(client[c], Peer(c)) = None
    /\ Len(fetching[c]) < max
    /\ BundleServed(Peer(c), consumeOneTimePreKey(server[Peer(c)].otpKeys))
    /\ fetching' = [fetching EXCEPT ![c] =
                       Append(@, BundleResponse(Peer(c),
                                                consumeOneTimePreKey(server[Peer(c)].otpKeys)))]
    /\ last' = [NoOp EXCEPT !.op = "fetch", !.p = c]
    /\ UNCHANGED <<client, wire, handed, processed, taken, nextKey, x3, ratchetVars, relay>>

\* one handleSend at a time: the input is disabled while a send is under way
HandleSendFetch(c) == HandleSendFetchUpTo(c, 1)

\* handleSend after getOrCreateSession has returned made, with isNew true
SendFirst(c, plaintext, made) ==
    Sent(c, plaintext, TRUE,
         IF made.ok
         THEN encrypt(made.m, made.session, plaintext, TRUE)
         ELSE [ok |-> FALSE, m |-> made.m, envelope |-> None, aad |-> None])

\* handleSend resumes with the bundle that was asked for first: the
\* session is created and saved,
\* the plaintext encrypted as a first message and the envelope posted
HandleSendResume(c) ==
    /\ fetching[c] # <<>>
    /\ SendFirst(c, PlaintextOf(Len(wire) + 1),
                 IF client[c].retains
                 THEN getOrCreateSession(client[c],
                                         RecipientBundleOf(Head(fetching[c])),
                                         nextKey, nextKey + 1)
                 ELSE getOrCreateSessionOutgoing(client[c],
                                                 RecipientBundleOf(Head(fetching[c])),
                                                 nextKey, nextKey + 1))
    /\ fetching' = [fetching EXCEPT ![c] = Tail(@)]
    /\ nextKey' = nextKey + 2
    /\ UNCHANGED <<server, processed, issued, taken, x3, ratchetVars, relay>>

\* the handler has run on envelope i for user c: res is what the call it
\* made returned or threw; kind tells what the relay changed in the envelope
Received(c, i, kind, branch, res) ==
    /\ client' = [client EXCEPT ![c] = res.m]
    /\ processed' = IF res.ok
                    THEN [processed EXCEPT ![c] = @ \cup {i}]
                    ELSE processed
    /\ nextKey' = IF res.ok THEN nextKey + 1 ELSE nextKey
    /\ last' = [op |-> "receive", p |-> c, i |-> i, kind |-> kind,
                ok |-> res.ok, err |-> res.err, plaintext |-> res.plaintext,
                branch |-> branch,
                hadSession |-> getSession(client[c], wire[i].from) # None,
                again |-> i \in processed[c],
                aad |-> res.aad]

Handled(c, i, kind, got) ==
    Received(c, i, kind, got.branch, got.result)

\* the one-time pre-key the handler takes from the store of manager m for
\* envelope i, as a sequence of none or one
TakenFor(m, i) ==
    IF /\ wire[i].envelopeStr.envelope.isPreKeyMessage \/ getSession(m, wire[i].from) = None
       /\ storedOneTimePreKey(m, wire[i].envelopeStr.envelope) # {}
    THEN <<CHOOSE o \in storedOneTimePreKey(m, wire[i].envelopeStr.envelope) : TRUE>>
    ELSE <<>>

\* the relay hands envelope i to its recipient c, for the first time or again
OnMessage(c, i) ==
    /\ i \in 1..Len(wire)
    /\ wire[i].to = c
    /\ handed[i] < MaxDeliveries
    /\ handed' = [handed EXCEPT ![i] = @ + 1]
    /\ Handled(c, i, "", onMessage(client[c], wire[i].from, wire[i].envelopeStr,
                                   nextKey))
    /\ taken' = [taken EXCEPT ![c] = @ \o TakenFor(client[c], i)]
    /\ UNCHANGED <<server, fetching, wire, issued, x3, ratchetVars, relay>>

\* The relay hands envelope i to its recipient c with another registration
\* id in it: that of a different installation, here the recipient's own.
OnMessageOtherRegistration(c, i) ==
    /\ i \in 1..Len(wire)
    /\ wire[i].to = c
    /\ handed[i] < MaxDeliveries
    /\ client[c].identityKey.registrationId # wire[i].envelopeStr.envelope.registrationId
    /\ handed' = [handed EXCEPT ![i] = @ + 1]
    /\ Handled(c, i, "registrationId",
               onMessage(client[c], wire[i].from,
                         [wire[i].envelopeStr EXCEPT !.envelope.registrationId =
                              client[c].identityKey.registrationId],
                         nextKey))
    /\ taken' = [taken EXCEPT ![c] = @ \o TakenFor(client[c], i)]
    /\ UNCHANGED <<server, fetching, wire, issued, x3, ratchetVars, relay>>

ClientNext ==
    \/ \E c \in Parties : HandleSend(c)
    \/ \E c \in Parties : HandleSendFetch(c)
    \/ \E c \in Parties : HandleSendResume(c)
    \/ \E c \in Parties, i \in 1..MaxEnvelopes : OnMessage(c, i)
    \/ \E c \in Parties, i \in 1..MaxEnvelopes : OnMessageOtherRegistration(c, i)

SpecClient == ClientInit /\ [][ClientNext]_vars

(* ------------------------------------------------------------------ *)
(* Specification SpecSession: the two clients with a relay that       *)
(* changes nothing in the envelopes                                   *)
(* ------------------------------------------------------------------ *)

SessionNext ==
    \/ \E c \in Parties : HandleSend(c)
    \/ \E c \in Parties : HandleSendFetch(c)
    \/ \E c \in Parties : HandleSendResume(c)
    \/ \E c \in Parties, i \in 1..MaxEnvelopes : OnMessage(c, i)

SpecSession == ClientInit /\ [][SessionNext]_vars

(* ------------------------------------------------------------------ *)
(* Specification SpecOverlap: a user who leaves the conversation      *)
(* while a send awaits the bundle, comes back and sends again         *)
(* ------------------------------------------------------------------ *)

\* calls of handleSend of one client that await a bundle at a time: the
\* ChatView mounted anew starts with isSending false
MaxOverlap == 2

OverlapNext ==
    \/ \E c \in Parties : HandleSend(c)
    \/ \E c \in Parties : HandleSendFetchUpTo(c, MaxOverlap)
    \/ \E c \in Parties : HandleSendResume(c)
    \/ \E c \in Parties, i \in 1..MaxEnvelopes : OnMessage(c, i)

SpecOverlap == ClientInit /\ [][OverlapNext]_vars

(* ------------------------------------------------------------------ *)
(* Specification SpecRotate: a client that refills its pre-keys while *)
(* envelopes for it are on their way                                  *)
(* ------------------------------------------------------------------ *)

PREKEY_REFILL_THRESHOLD == 10

\* uploadInitialKeys up to its first await; k is the first of the random
\* values it draws: wasp-spk is overwritten, the counter advanced and the
\* new one-time pre-keys are added to wasp-opks
uploadInitialKeys(m, k) ==
    LET opks == generateOneTimePreKeys(m.opkCounter, OPK_BATCH, k + 1)
    IN  [m EXCEPT !.spk = generateSignedPreKey(m.identityKey, 1, k),
                  !.opkCounter = m.opkCounter + OPK_BATCH,
                  !.opks = @ \cup {opks[j] : j \in 1..OPK_BATCH},
                  !.uploading = "bundle"]

\* The relay has told client c, on authentication, that the server holds
\* fewer one-time pre-keys than the threshold: the handler of
\* prekey_refill_needed calls uploadInitialKeys, which stops at
\* api.keys.uploadBundle.
UploadInitialKeys(c) ==
    /\ Len(server[c].otpKeys) < PREKEY_REFILL_THRESHOLD
    /\ client[c].uploading = ""
    /\ client' = [client EXCEPT ![c] = uploadInitialKeys(client[c], nextKey)]
    /\ nextKey' = nextKey + OPK_BATCH + 1
    /\ last' = [NoOp EXCEPT !.op = "refill", !.p = c]
    /\ UNCHANGED <<server, fetching, wire, handed, processed, issued, taken, x3, ratchetVars, relay>>

\* POST /keys/bundle: storeKeyBundle replaces the bundle of c
BundleUploaded(c) ==
    /\ client[c].uploading = "bundle"
    /\ server' = [server EXCEPT ![c].bundle = ServerOf(c, client[c]).bundle]
    /\ client' = [client EXCEPT ![c].uploading = "prekeys"]
    /\ last' = [NoOp EXCEPT !.op = "uploadBundle", !.p = c]
    /\ UNCHANGED <<fetching, wire, handed, processed, issued, taken, nextKey, x3, ratchetVars, relay>>

\* opks.map((opk) => ({ keyId, publicKey })) for the batch that manager m
\* generated last
PublicOTPKeys(m) ==
    [j \in 1..OPK_BATCH |->
        LET o == CHOOSE o \in m.opks : o.keyId = m.opkCounter - OPK_BATCH + j - 1
        IN  [keyId |-> o.keyId, publicKey |-> toHex(o.publicKey)]]

\* POST /keys/prekeys: uploadOneTimePreKeys appends the batch to the queue
PreKeysUploaded(c) ==
    /\ client[c].uploading = "prekeys"
    /\ server' = [server EXCEPT ![c].otpKeys = @ \o PublicOTPKeys(client[c])]
    /\ client' = [client EXCEPT ![c].uploading = ""]
    /\ last' = [NoOp EXCEPT !.op = "uploadPreKeys", !.p = c]
    /\ UNCHANGED <<fetching, wire, handed, processed, issued, taken, nextKey, x3, ratchetVars, relay>>

\* A sends to B, and B refills
RotateNext ==
    \/ HandleSendFetch("A")
    \/ HandleSendResume("A")
    \/ HandleSend("A")
    \/ \E i \in 1..MaxEnvelopes : OnMessage("B", i)
    \/ UploadInitialKeys("B")
    \/ BundleUploaded("B")
    \/ PreKeysUploaded("B")

SpecRotate == ClientInit /\ [][RotateNext]_vars

(* ------------------------------------------------------------------ *)
(* Specification SpecRegId: the registration id of a new identity     *)
(* ------------------------------------------------------------------ *)

\* the values of one random byte
Bytes == 0..255

\* bytes: the two bytes randomBytes(2) returned.  On bytes, << 8 is a
\* multiplication by 256 and | an addition of disjoint bits; & 0x3fff
\* keeps the low 14 bits.
generateRegistrationId(bytes) ==
    LET raw == (bytes[1] * 256) + bytes[2]
    IN  (raw % 16384) + 1

\* registrationId: z.number().int().min(1).max(16380)
RegisterSchema(registrationId) ==
    registrationId >= 1 /\ registrationId <= 16380

RegIdInit ==
    /\ \E b0 \in Bytes, b1 \in Bytes :
           last = [op |-> "randomBytes", bytes |-> <<b0, b1>>,
                   registrationId |-> 0, accepted |-> FALSE]
    /\ RatchetIdle /\ ClientIdle
    /\ x3 = None /\ relay = None
    /\ nextKey = 0

\* generateIdentityKey() draws the registration id of the new identity
GenerateIdentity ==
    /\ last.op = "randomBytes"
    /\ last' = [last EXCEPT !.op = "generateIdentityKey",
                            !.registrationId = generateRegistrationId(last.bytes)]
    /\ UNCHANGED <<ratchetVars, clientVars, x3, nextKey, relay>>

\* the server validates the registration request that carries the id
Register ==
    /\ last.op = "generateIdentityKey"
    /\ last' = [last EXCEPT !.op = "register",
                            !.accepted = RegisterSchema(last.registrationId)]
    /\ UNCHANGED <<ratchetVars, clientVars, x3, nextKey, relay>>

RegIdNext == GenerateIdentity \/ Register

SpecRegId == RegIdInit /\ [][RegIdNext]_vars

(* ------------------------------------------------------------------ *)
(* Specification SpecRelay: the relay server, one sender A that stays *)
(* connected and one recipient B that connects and disconnects        *)
(* ------------------------------------------------------------------ *)

\* messages A hands to the relay in one run
MaxRelayed == 2

\* sockets B opens in one run
MaxSockets == 2

\* WebSocket.readyState
OPEN == 1

CLOSING == 2

CLOSED == 3

\* relay.sockets: B's sockets in the order in which they were opened, with
\*   readyState, authenticatedUserId ("" for null), pc (where the 'auth' handler of the
\*   socket stands), offline (what its drainOfflineQueue call has read) and
\*   got (the 'message' frames written to the socket);
\* relay.connections: the entry of B in the connections map, a socket
\*   number or 0; relay.queue: B's offline list; relay.acks: the status of
\*   the message_ack sent to A for each message.
RelayInit ==
    /\ relay = [sockets |-> <<>>, connections |-> 0, queue |-> <<>>, acks |-> <<>>]
    /\ RatchetIdle /\ ClientIdle
    /\ x3 = None
    /\ nextKey = 0
    /\ last = NoOp

\* send(socket, data): nothing is written unless the socket is open
send(socket, frames) ==
    IF socket.readyState = OPEN THEN [socket EXCEPT !.got = @ \o frames] ELSE socket

\* B opens a socket, after its earlier ones are closed, and sends 'auth':
\* the handler calls app.jwt.verify and waits.
Connect ==
    /\ Len(relay.sockets) < MaxSockets
    /\ \A s \in 1..Len(relay.sockets) : relay.sockets[s].readyState = CLOSED
    /\ relay' = [relay EXCEPT !.sockets =
                    Append(@, [readyState |-> OPEN, authenticatedUserId |-> "",
                               pc |-> "verify", offline |-> <<>>, got |-> <<>>])]
    /\ UNCHANGED <<ratchetVars, clientVars, x3, nextKey, last>>

\* the token is verified: the connection is registered and setUserOnline
\* called
AuthVerified(s) ==
    /\ relay.sockets[s].pc = "verify"
    /\ relay' = [relay EXCEPT !.sockets[s].authenticatedUserId = "B",
                              !.sockets[s].pc = "setUserOnline",
                              !.connections = s]
    /\ UNCHANGED <<ratchetVars, clientVars, x3, nextKey, last>>

\* setUserOnline has returned: auth_ok is sent and drainOfflineQueue reads
\* the list (lrange)
AuthDrainRead(s) ==
    /\ relay.sockets[s].pc = "setUserOnline"
    /\ relay' = [relay EXCEPT !.sockets[s].offline = relay.queue,
                              !.sockets[s].pc = "lrange"]
    /\ UNCHANGED <<ratchetVars, clientVars, x3, nextKey, last>>

\* lrange has returned: a list that was not empty is deleted (del)
AuthDrainDelete(s) ==
    /\ relay.sockets[s].pc = "lrange"
    /\ relay' = [relay EXCEPT !.queue = IF relay.sockets[s].offline # <<>>
                                        THEN <<>> ELSE @,
                              !.sockets[s].pc = "del"]
    /\ UNCHANGED <<ratchetVars, clientVars, x3, nextKey, last>>

\* drainOfflineQueue has returned: what it read is sent to the socket
AuthDeliver(s) ==
    /\ relay.sockets[s].pc = "del"
    /\ relay' = [relay EXCEPT !.sockets[s] =
                    [send(@, relay.sockets[s].offline) EXCEPT !.pc = "done"]]
    /\ UNCHANGED <<ratchetVars, clientVars, x3, nextKey, last>>

\* B's socket starts to close
SocketClosing(s) ==
    /\ relay.sockets[s].readyState = OPEN
    /\ relay' = [relay EXCEPT !.sockets[s].readyState = CLOSING]
    /\ UNCHANGED <<ratchetVars, clientVars, x3, nextKey, last>>

\* the socket is closed and its 'close' handler runs
SocketClosed(s) ==
    /\ relay.sockets[s].readyState = CLOSING
    /\ relay' = [relay EXCEPT !.sockets[s].readyState = CLOSED,
                              !.connections =
                                  IF relay.sockets[s].authenticatedUserId # ""
                                  THEN 0 ELSE @]
    /\ UNCHANGED <<ratchetVars, clientVars, x3, nextKey, last>>

\* the 'message' handler has run on A's message m for B
Relayed(m, online) ==
    relay' = IF online
             THEN [relay EXCEPT !.sockets[relay.connections] = send(@, <<m>>),
                                !.acks = Append(@, "delivered")]
             ELSE [relay EXCEPT !.queue = Append(@, m),
                                !.acks = Append(@, "queued")]

\* A sends a message for B: it is relayed to B's registered socket if that
\* is open, and queued otherwise; A gets the message_ack
RelayMessage ==
    /\ Len(relay.acks) < MaxRelayed
    /\ Relayed(Len(relay.acks) + 1,
               relay.connections # 0 /\ relay.sockets[relay.connections].readyState = OPEN)
    /\ UNCHANGED <<ratchetVars, clientVars, x3, nextKey, last>>

\* the steps the server takes by itself: continuations of an 'auth' handler
RelayHandlers ==
    \E s \in 1..MaxSockets :
        /\ s <= Len(relay.sockets)
        /\ AuthVerified(s) \/ AuthDrainRead(s) \/ AuthDrainDelete(s) \/ AuthDeliver(s)

RelaySockets ==
    \E s \in 1..MaxSockets :
        /\ s <= Len(relay.sockets)
        /\ SocketClosing(s) \/ SocketClosed(s)

RelayNext == Connect \/ RelayMessage \/ RelayHandlers \/ RelaySockets

\* The event loop runs every continuation that is ready; nothing obliges
\* A to send or B to connect or to stay.
SpecRelay == RelayInit /\ [][RelayNext]_vars /\ WF_vars(RelayHandlers)

(* ------------------------------------------------------------------ *)
(* Specification SpecGateway: the relay with sockets of both users,   *)
(* authenticated or not, and the frames they send                     *)
(* ------------------------------------------------------------------ *)

MaxGatewaySockets == 2
MaxFrames == 2
MaxAuths == 2

\* what app.jwt.verify makes of a token: decoded.sub, or it throws
InvalidToken == "invalid"
Tokens == Parties \cup {InvalidToken}

FrameTypes == {"message", "delivery_receipt", "typing"}

\* relay.sockets: the sockets in the order in which they were opened, with
\*   readyState, authenticatedUserId ("" for null), verifying (the tokens
\*   of the 'auth' handlers waiting for app.jwt.verify), draining (the
\*   'auth' handlers waiting for redis), got (the frames written to the
\*   socket) and verified (the users whose token was verified on it);
\* relay.connections: the connections map, a socket number or 0 per user;
\* relay.queue: the offline list per user; relay.frames, relay.auths: how
\*   many frames the sockets have sent.
GatewayInit ==
    /\ relay = [sockets |-> <<>>, connections |-> [u \in Parties |-> 0],
                queue |-> [u \in Parties |-> <<>>], frames |-> 0, auths |-> 0]
    /\ RatchetIdle /\ ClientIdle
    /\ x3 = None
    /\ nextKey = 0
    /\ last = NoOp

\* a client opens a socket: let authenticatedUserId = null
OnConnection ==
    /\ Len(relay.sockets) < MaxGatewaySockets
    /\ relay' = [relay EXCEPT !.sockets =
                    Append(@, [readyState |-> OPEN, authenticatedUserId |-> "",
                               verifying |-> <<>>, draining |-> <<>>,
                               got |-> <<>>, verified |-> {}])]
    /\ UNCHANGED <<ratchetVars, clientVars, x3, nextKey, last>>

\* an 'auth' frame arrives: ALREADY_AUTH when authenticatedUserId is set,
\* and otherwise the handler calls app.jwt.verify and waits
OnAuth(s, token) ==
    /\ relay.sockets[s].readyState = OPEN
    /\ relay.auths < MaxAuths
    /\ relay' = IF relay.sockets[s].authenticatedUserId # ""
                THEN [relay EXCEPT !.auths = @ + 1]
                ELSE [relay EXCEPT !.auths = @ + 1,
                                   !.sockets[s].verifying = Append(@, token)]
    /\ UNCHANGED <<ratchetVars, clientVars, x3, nextKey, last>>

\* app.jwt.verify has returned: the user id is set and the connection
\* registered, and the handler waits for redis
authenticated(socket, sub) ==
    [socket EXCEPT !.authenticatedUserId = sub, !.verifying = Tail(@),
                   !.draining = Append(@, sub), !.verified = @ \cup {sub}]

\* app.jwt.verify has thrown: sendError(socket, 'AUTH_FAILED', ...);
\* socket.close(1008, 'Unauthorized')
rejected(socket) ==
    [socket EXCEPT !.verifying = Tail(@),
                   !.readyState = IF @ = OPEN THEN CLOSING ELSE @]

AuthSettled(s) ==
    /\ relay.sockets[s].verifying # <<>>
    /\ LET token == Head(relay.sockets[s].verifying)
       IN  relay' = IF token = InvalidToken
                    THEN [relay EXCEPT !.sockets[s] = rejected(@)]
                    ELSE [relay EXCEPT !.sockets[s] = authenticated(@, token),
                                       !.connections[token] = s]
    /\ UNCHANGED <<ratchetVars, clientVars, x3, nextKey, last>>

\* setUserOnline and drainOfflineQueue have returned: the queued frames are
\* sent to the socket, each with the 'from' it was queued with
AuthDrained(s) ==
    /\ relay.sockets[s].draining # <<>>
    /\ LET userId == Head(relay.sockets[s].draining)
       IN  relay' = [relay EXCEPT !.sockets[s] =
                        [send(@, relay.queue[userId]) EXCEPT !.draining = Tail(@)],
                                  !.queue[userId] = <<>>]
    /\ UNCHANGED <<ratchetVars, clientVars, x3, nextKey, last>>

\* payload: { ...msg.payload, from: authenticatedUserId }
receiptPayload_KeepsFrom(payload, authenticatedUserId) ==
    IF payload.from # "" THEN payload
    ELSE [payload EXCEPT !.from = authenticatedUserId]

receiptPayload(payload, authenticatedUserId) ==
    [payload EXCEPT !.from = authenticatedUserId]

\* the frame written for an inbound frame of the socket s: 'message' and
\* 'typing' frames get a payload built from authenticatedUserId and the
\* fields read from msg.payload, receipts get msg.payload with 'from' set
outbound(s, type, payload, authenticatedUserId) ==
    IF type \in {"message", "typing"}
    THEN [type |-> type, origin |-> s, to |-> payload.to, from |-> authenticatedUserId]
    ELSE [type |-> type, origin |-> s, to |-> payload.to,
          from |-> receiptPayload(payload, authenticatedUserId).from]

\* the handler of an authenticated socket: sent to the recipient's socket
\* when the map has one and it is open; otherwise a 'message' is queued
\* and a receipt or a typing frame dropped
relayed(r, frame) ==
    LET recipientSocket == r.connections[frame.to]
    IN  IF recipientSocket # 0 /\ r.sockets[recipientSocket].readyState = OPEN
        THEN [r EXCEPT !.sockets[recipientSocket] = send(@, <<frame>>)]
        ELSE IF frame.type = "message"
             THEN [r EXCEPT !.queue[frame.to] = Append(@, frame)]
             ELSE r

\* a frame other than 'auth' arrives on the socket s: UNAUTHORIZED unless
\* authenticatedUserId is set
OnFrame(s, type, payload) ==
    /\ relay.sockets[s].readyState = OPEN
    /\ relay.frames < MaxFrames
    /\ LET authenticatedUserId == relay.sockets[s].authenticatedUserId
           counted == [relay EXCEPT !.frames = @ + 1]
       IN  IF authenticatedUserId = ""
           THEN /\ relay' = counted
                /\ last' = [NoOp EXCEPT !.op = "frame", !.i = s, !.kind = type,
                                        !.ok = FALSE, !.err = "UNAUTHORIZED"]
           ELSE /\ relay' = relayed(counted, outbound(s, type, payload, authenticatedUserId))
                /\ last' = [NoOp EXCEPT !.op = "frame", !.i = s, !.kind = type]
    /\ UNCHANGED <<ratchetVars, clientVars, x3, nextKey>>

\* the socket starts to close
Closing(s) ==
    /\ relay.sockets[s].readyState = OPEN
    /\ relay' = [relay EXCEPT !.sockets[s].readyState = CLOSING]
    /\ UNCHANGED <<ratchetVars, clientVars, x3, nextKey, last>>

\* socket.on('close'): if (authenticatedUserId)
\* connections.delete(authenticatedUserId)
OnClose(s) ==
    /\ relay.sockets[s].readyState = CLOSING
    /\ LET authenticatedUserId == relay.sockets[s].authenticatedUserId
       IN  relay' = [relay EXCEPT !.sockets[s].readyState = CLOSED,
                                  !.connections = IF authenticatedUserId # ""
                                                  THEN [@ EXCEPT ![authenticatedUserId] = 0]
                                                  ELSE @]
    /\ UNCHANGED <<ratchetVars, clientVars, x3, nextKey, last>>

\* what a client may put into a payload: a recipient, and in a receipt a
\* 'from' of its choice
Payloads(type) ==
    [to : Parties, from : IF type = "delivery_receipt" THEN Parties \cup {""} ELSE {""}]

GatewayNext ==
    \/ OnConnection
    \/ \E s \in 1..Len(relay.sockets), token \in Tokens : OnAuth(s, token)
    \/ \E s \in 1..Len(relay.sockets) : AuthSettled(s)
    \/ \E s \in 1..Len(relay.sockets) : AuthDrained(s)
    \/ \E s \in 1..Len(relay.sockets), type \in FrameTypes : \E payload \in Payloads(type) : OnFrame(s, type, payload)
    \/ \E s \in 1..Len(relay.sockets) : Closing(s)
    \/ \E s \in 1..Len(relay.sockets) : OnClose(s)

SpecGateway == GatewayInit /\ [][GatewayNext]_vars

(* ------------------------------------------------------------------ *)
(* Specification SpecReconnect: the client's socket (WaspWebSocket-   *)
(* Client) and its reconnections                                      *)
(* ------------------------------------------------------------------ *)

CONNECTING == 0
maxReconnectAttempts == 10

\* the most reconnections in a row that the model follows
MaxReconnects == 12

\* relay holds the client's end of the socket: ws (the readyState of
\*   this.ws), accessToken ("valid" or "expired": what the server makes of
\*   it), reconnectAttempts, reconnectTimeout (a timer is set),
\*   isAuthenticated, emitted (max_reconnects was emitted) and reconnects
\*   (the doConnect calls of the timer since the socket was last
\*   authenticated).
\* The state after connect(token): reconnectAttempts = 0 and doConnect()
ReconnectInit ==
    /\ \E accessToken \in {"valid", "expired"} :
           relay = [ws |-> CONNECTING, accessToken |-> accessToken,
                    reconnectAttempts |-> 0, reconnectTimeout |-> FALSE,
                    isAuthenticated |-> FALSE, emitted |-> FALSE, reconnects |-> 0]
    /\ RatchetIdle /\ ClientIdle
    /\ x3 = None
    /\ nextKey = 0
    /\ last = NoOp

\* scheduleReconnect(): max_reconnects once reconnectAttempts has reached
\* maxReconnectAttempts, and otherwise one more attempt and a timer
scheduleReconnect(c) ==
    IF c.reconnectAttempts >= maxReconnectAttempts
    THEN [c EXCEPT !.emitted = TRUE]
    ELSE [c EXCEPT !.reconnectAttempts = @ + 1, !.reconnectTimeout = TRUE]

\* ws.onclose with a code other than 1000, the token still set
onclose(c) ==
    scheduleReconnect([c EXCEPT !.ws = CLOSED, !.isAuthenticated = FALSE])

\* ws.onopen: this.reconnectAttempts = 0, and the 'auth' frame is sent
OnOpen ==
    /\ relay.ws = CONNECTING
    /\ relay' = [relay EXCEPT !.ws = OPEN, !.reconnectAttempts = 0]
    /\ UNCHANGED <<ratchetVars, clientVars, x3, nextKey, last>>

\* the connection is not established: the socket closes with code 1006
ConnectFailed ==
    /\ relay.ws = CONNECTING
    /\ relay' = onclose(relay)
    /\ UNCHANGED <<ratchetVars, clientVars, x3, nextKey, last>>

\* the server has verified the token: auth_ok
OnAuthOk ==
    /\ relay.ws = OPEN /\ ~relay.isAuthenticated
    /\ relay.accessToken = "valid"
    /\ relay' = [relay EXCEPT !.isAuthenticated = TRUE, !.reconnects = 0]
    /\ UNCHANGED <<ratchetVars, clientVars, x3, nextKey, last>>

\* the server has rejected the token: AUTH_FAILED and close(1008)
OnAuthFailed ==
    /\ relay.ws = OPEN /\ ~relay.isAuthenticated
    /\ relay.accessToken = "expired"
    /\ relay' = onclose(relay)
    /\ UNCHANGED <<ratchetVars, clientVars, x3, nextKey, last>>

\* the open socket is lost (code 1006)
OnDropped ==
    /\ relay.ws = OPEN
    /\ relay' = onclose(relay)
    /\ UNCHANGED <<ratchetVars, clientVars, x3, nextKey, last>>

\* the token's lifetime ends
TokenExpires ==
    /\ relay.accessToken = "valid"
    /\ relay' = [relay EXCEPT !.accessToken = "expired"]
    /\ UNCHANGED <<ratchetVars, clientVars, x3, nextKey, last>>

\* the timer of scheduleReconnect fires: if (this.accessToken)
\* this.doConnect(), which returns at once when the socket is open
OnReconnectTimeout ==
    /\ relay.reconnectTimeout
    /\ relay.reconnects < MaxReconnects
    /\ relay' = IF relay.ws = OPEN
                THEN [relay EXCEPT !.reconnectTimeout = FALSE]
                ELSE [relay EXCEPT !.reconnectTimeout = FALSE, !.ws = CONNECTING,
                                   !.reconnects = @ + 1]
    /\ UNCHANGED <<ratchetVars, clientVars, x3, nextKey, last>>

ReconnectNext ==
    \/ OnOpen
    \/ ConnectFailed
    \/ OnAuthOk
    \/ OnAuthFailed
    \/ OnDropped
    \/ TokenExpires
    \/ OnReconnectTimeout

SpecReconnect == ReconnectInit /\ [][ReconnectNext]_vars

(* ------------------------------------------------------------------ *)
(* Specification SpecMedia: media encryption                          *)
(* ------------------------------------------------------------------ *)

\* A changed bit of a byte string is marked on the element that holds it:
\* no constructor yields a marked element, and changing the same bit
\* again restores the string.
BitMark == 1000

FlipBit(bytes, i) ==
    [bytes EXCEPT ![i] = IF @ >= BitMark THEN @ - BitMark ELSE @ + BitMark]

\* hkdf(sha256, mediaKey, new Uint8Array(0), MEDIA_HKDF_INFO, 80), sliced
expandMediaKey(mediaKey) ==
    [iv        |-> <<Tag.mediaIv>> \o mediaKey,
     cipherKey |-> <<Tag.mediaCipher>> \o mediaKey,
     macKey    |-> <<Tag.mediaMac>> \o mediaKey]

\* hmac(sha256, macKey, concat(iv, ciphertext)).slice(0, 10)
truncatedMacOf(macKey, iv, ciphertext) == <<Tag.hmac, macKey, iv, ciphertext>>

\* sha256(encryptedBlob)
digestOf(encryptedBlob) == <<Tag.sha256, encryptedBlob>>

\* An encrypted blob is held as its three slices: the first 16 bytes, the
\* last 10 bytes and what lies between.  k: the 64 random bytes.
encryptMedia(plainBlob, k) ==
    LET mediaKey == <<Tag.mediaKey, k>>
        keys == expandMediaKey(mediaKey)
        ciphertext == aesgcmEncrypt(keys.cipherKey, keys.iv, plainBlob, None)
        encryptedBlob == [iv |-> keys.iv, ciphertext |-> ciphertext,
                          mac |-> truncatedMacOf(keys.macKey, keys.iv, ciphertext)]
    IN  [encryptedBlob |-> encryptedBlob, mediaKey |-> mediaKey,
         digest |-> digestOf(encryptedBlob)]

\* cipher.decrypt(ciphertext) of gcm(cipherKey, blobIv)
mediaOpened(opened) ==
    IF opened.ok THEN [ok |-> TRUE, err |-> "", plaintext |-> opened.plaintext]
    ELSE [ok |-> FALSE, err |-> "AuthFailure", plaintext |-> None]

decryptMedia_NoDigestCheck(encryptedBlob, mediaKey, expectedDigest) ==
    LET keys == expandMediaKey(mediaKey)
    IN  IF truncatedMacOf(keys.macKey, encryptedBlob.iv, encryptedBlob.ciphertext) # encryptedBlob.mac
        THEN [ok |-> FALSE, err |-> "MediaMac", plaintext |-> None]
        ELSE mediaOpened(aesgcmDecrypt(keys.cipherKey, encryptedBlob.iv,
                                       encryptedBlob.ciphertext, None))

decryptMedia(encryptedBlob, mediaKey, expectedDigest) ==
    IF digestOf(encryptedBlob) # expectedDigest
    THEN \* 'Media integrity check failed ...'
         [ok |-> FALSE, err |-> "MediaIntegrity", plaintext |-> None]
    ELSE LET keys == expandMediaKey(mediaKey)
         IN  IF truncatedMacOf(keys.macKey, encryptedBlob.iv, encryptedBlob.ciphertext) # encryptedBlob.mac
             THEN \* 'Media MAC verification failed ...'
                  [ok |-> FALSE, err |-> "MediaMac", plaintext |-> None]
             ELSE mediaOpened(aesgcmDecrypt(keys.cipherKey, encryptedBlob.iv,
                                            encryptedBlob.ciphertext, None))

\* the inputs of decryptMedia that a relay or a sender can change
MediaParts == {"iv", "ciphertext", "mac", "mediaKey", "digest"}

\* one bit of one part changed; a changed bit of the ciphertext or of its
\* tag is the flip that aesgcmDecrypt looks at
MediaChanged(m, part, i) ==
    CASE part = "iv" -> [m EXCEPT !.encryptedBlob.iv = FlipBit(@, i)]
      [] part = "ciphertext" -> [m EXCEPT !.encryptedBlob.ciphertext.flip = 1 - @]
      [] part = "mac" -> [m EXCEPT !.encryptedBlob.mac = FlipBit(@, 1)]
      [] part = "mediaKey" -> [m EXCEPT !.mediaKey = FlipBit(@, i)]
      [] OTHER -> [m EXCEPT !.digest = FlipBit(@, 1)]

MediaInit ==
    /\ \E pt \in 1..MaxMsgs :
           last = [op |-> "plainBlob", plainBlob |-> PlaintextOf(pt), k |-> 0,
                   media |-> None, result |-> None]
    /\ RatchetIdle /\ ClientIdle
    /\ x3 = None /\ relay = None
    /\ nextKey = 0

EncryptMedia ==
    /\ last.op = "plainBlob"
    /\ \E k \in KeyIds(7) :
           last' = [last EXCEPT !.op = "encryptMedia", !.k = k,
                                !.media = encryptMedia(last.plainBlob, k)]
    /\ UNCHANGED <<ratchetVars, clientVars, x3, nextKey, relay>>

\* one bit of the blob, of the media key or of the digest changes on the
\* way to the recipient
ChangeMedia(part) ==
    /\ last.op # "plainBlob"
    /\ \E i \in 1..2 :
           last' = [last EXCEPT !.op = "change", !.result = None,
                                !.media = MediaChanged(last.media, part, i)]
    /\ UNCHANGED <<ratchetVars, clientVars, x3, nextKey, relay>>

DecryptMedia ==
    /\ last.op \in {"encryptMedia", "change"}
    /\ last' = [last EXCEPT !.op = "decryptMedia",
                            !.result = decryptMedia(last.media.encryptedBlob,
                                                    last.media.mediaKey,
                                                    last.media.digest)]
    /\ UNCHANGED <<ratchetVars, clientVars, x3, nextKey, relay>>

MediaNext ==
    \/ EncryptMedia
    \/ \E part \in MediaParts : ChangeMedia(part)
    \/ DecryptMedia

SpecMedia == MediaInit /\ [][MediaNext]_vars

(* ------------------------------------------------------------------ *)
(* Specification SpecKeyIds: batches of one-time pre-keys generated   *)
(* one after the other, from a counter near the end of the 24-bit     *)
(* key id space                                                       *)
(* ------------------------------------------------------------------ *)

\* the largest key id of the 24-bit id space
KeyIdLimit == 2^24 - 1

\* how far below the end of the id space the counter starts, the largest
\* batch, and the number of batches
MaxBelowLimit == 8
MaxBatch == 3
MaxBatches == 3

KeyIdsInit ==
    /\ \E counter \in (KeyIdLimit + 1 - MaxBelowLimit)..KeyIdLimit :
           last = [op |-> "counter", counter |-> counter, startId |-> 0,
                   count |-> 0, opks |-> <<>>, batches |-> 0]
    /\ RatchetIdle /\ ClientIdle
    /\ x3 = None /\ relay = None
    /\ nextKey = 0

\* const opks = generateOneTimePreKeys(counter, count);
\* localStorage.setItem(OPK_COUNTER_KEY, String(counter + count))
GenerateBatch(count) ==
    /\ last.batches < MaxBatches
    /\ last' = [op |-> "generateOneTimePreKeys",
                counter |-> last.counter + count,
                startId |-> last.counter, count |-> count,
                opks |-> generateOneTimePreKeys(last.counter, count, nextKey),
                batches |-> last.batches + 1]
    /\ nextKey' = nextKey + count
    /\ UNCHANGED <<ratchetVars, clientVars, x3, relay>>

KeyIdsNext == \E count \in 0..MaxBatch : GenerateBatch(count)

SpecKeyIds == KeyIdsInit /\ [][KeyIdsNext]_vars

(* ------------------------------------------------------------------ *)
(* Specification SpecOpk: the handshakes, with bundle requests of     *)
(* other users                                                        *)
(* ------------------------------------------------------------------ *)

OpkNext ==
    \/ \E c \in Parties : HandleSendFetch(c)
    \/ \E c \in Parties : BundleRequest(c)
    \/ \E c \in Parties : HandleSendResume(c)
    \/ \E c \in Parties, i \in 1..MaxEnvelopes : OnMessage(c, i)

SpecOpk == ClientInit /\ [][OpkNext]_vars

(* ------------------------------------------------------------------ *)
(* Properties of the Double Ratchet (specification Spec)              *)
(* ------------------------------------------------------------------ *)

\* the message that the last operation handed to last.p
LastMessage == sent[Peer(last.p)][last.i].message

\* C1: when every message so far has been delivered in the order it was
\* sent, ratchetDecrypt succeeds and returns exactly the plaintext given to
\* the matching ratchetEncrypt, also across DH ratchet steps.
C1_InOrderRoundTrip ==
    (last.op = "deliver" /\ orderly /\ ~forged) =>
        /\ last.ok
        /\ last.plaintext = sent[Peer(last.p)][last.i].plaintext

\* B decrypts, in order, a message that A sent under a ratchet key A drew
\* after receiving B's reply: both parties have taken a DH ratchet step.
C1_Witness ==
    /\ last.op = "deliver" /\ last.ok /\ orderly /\ ~forged
    /\ last.p = "B"
    /\ sent["B"] # <<>>
    /\ LastMessage.header.dhRatchetKey # sent["A"][1].message.header.dhRatchetKey
    /\ LastMessage.header.dhRatchetKey = sess["B"].DHr
    /\ last.plaintext = sent["A"][last.i].plaintext

\* C2: whatever the order in which the messages of a party are delivered,
\* each first delivery returns the original plaintext, and once all of them
\* have been decrypted the receiver's MKSkipped is empty.
C2_AnyOrderDelivery ==
    ~forged =>
        /\ last.op = "deliver" =>
              /\ last.ok
              /\ last.plaintext = sent[Peer(last.p)][last.i].plaintext
        /\ \A p \in Parties :
              delivered[p] = 1..Len(sent[p]) =>
                  MapSize(sess[Peer(p)].MKSkipped) = 0

\* B decrypts A's first message last, from a skipped key, after later
\* messages of A, and holds no skipped key afterwards.
C2_Witness ==
    /\ ~forged /\ ~orderly
    /\ last.op = "deliver" /\ last.ok /\ last.p = "B" /\ last.i = 1
    /\ Len(sent["A"]) >= 3
    /\ delivered["A"] = 1..Len(sent["A"])
    /\ last.plaintext = sent["A"][1].plaintext
    /\ MapSize(sess["B"].MKSkipped) = 0

\* The replayed message is beyond what the receiver is willing to skip: it
\* carries a ratchet key other than the receiver's current DHr, and its pn
\* exceeds Nr + MAX_SKIP or its n exceeds MAX_SKIP.
ReplayTooFar ==
    /\ LastMessage.header.dhRatchetKey # sess[last.p].DHr
    /\ \/ NumLess(Num(sess[last.p].Nr + MAX_SKIP), LastMessage.header.pn)
       \/ NumLess(Num(MAX_SKIP), LastMessage.header.n)

\* C4 as stated: every ratchetDecrypt of a message that was decrypted
\* before fails with AuthFailure and returns no plaintext.
C4_ReplayAuthFailure ==
    last.op = "replay" =>
        ~last.ok /\ last.plaintext = None /\ last.err = "AuthFailure"

\* C4, amended: every ratchetDecrypt of a message that was decrypted before
\* fails and returns no plaintext; the failure is TooManySkipped when the
\* message is too far ahead in a chain the receiver has left, and
\* AuthFailure otherwise.
C4_ReplayRejected ==
    last.op = "replay" =>
        /\ ~last.ok
        /\ last.plaintext = None
        /\ last.err = IF ReplayTooFar THEN "TooManySkipped" ELSE "AuthFailure"

\* A message of an earlier chain is replayed after the receiver has taken a
\* DH ratchet step, and fails with AuthFailure.
C4_Witness ==
    /\ last.op = "replay" /\ ~last.ok /\ last.err = "AuthFailure"
    /\ LastMessage.header.dhRatchetKey # sess[last.p].DHr
    /\ sess[last.p].PN > 0

\* C5 as stated: a message that differs from the encrypted one in the
\* ciphertext, in one header field or in the associated data is rejected
\* and yields no plaintext.
C5_TamperRejected ==
    last.op = "tamper" => (~last.ok /\ last.plaintext = None)

C3_SameSharedSecret ==
    (x3 # None /\ x3.stage = "received" /\ x3.used = x3.oneTimePreKey) =>
        x3.secret = x3.out.sharedSecret

\* Both calls have run on a bundle with a one-time pre-key and agree.
C3_Witness ==
    /\ x3 # None
    /\ x3.stage = "received"
    /\ x3.oneTimePreKey # None
    /\ x3.used = x3.oneTimePreKey
    /\ x3.out.usedOneTimePreKeyId # None
    /\ x3.secret = x3.out.sharedSecret

\* C16: on a bundle whose signed pre-key signature does not verify under
\* the bundle's identity signing key, x3dhSend fails with InvalidSignature
\* and returns no ephemeral key and no shared secret, and the manager
\* that called it holds no session and no pending X3DH entry for the
\* contact.
C16_InvalidSignatureRefused ==
    (/\ x3 # None
     /\ x3.stage # "start"
     /\ ~verify(x3.bundle.identitySigningPublicKey, x3.bundle.signedPreKey.publicKey, x3.bundle.signedPreKey.signature))
    => /\ x3.stage = "refused"
       /\ ~x3.out.ok /\ x3.out.err = "InvalidSignature"
       /\ x3.out.sharedSecret = None /\ x3.out.ephemeralPublicKey = None
       /\ x3.manager.sessions[x3.bundle.userId] = None
       /\ x3.manager.pendingX3dh[x3.bundle.userId] = None

\* The call has run on a bundle whose signed pre-key was signed by someone
\* other than the owner of the bundle's identity key, and was refused.
C16_Witness ==
    /\ x3 # None
    /\ x3.stage = "refused"
    /\ x3.bundle.signedPreKey.signature = sign(x3.sender.privateKey, x3.bundle.signedPreKey.publicKey)
    /\ x3.bundle.identitySigningPublicKey = x3.receiver.publicKey
    /\ x3.out.err = "InvalidSignature"
    /\ x3.manager.sessions["B"] = None

(* ------------------------------------------------------------------ *)
(* Properties of the client (specification SpecClient)                *)
(* ------------------------------------------------------------------ *)

\* the envelope that the last receive was handed
LastEnvelope == wire[last.i].envelopeStr.envelope

\* C7 as stated: the receive path runs X3DH receive only when the envelope
\* is a pre-key message and no session is stored for the sender; in every
\* other case it decrypts with the stored session.
C7_X3dhOnlyWithoutSession ==
    last.op = "receive" =>
        (last.branch = "x3dh" <=>
             (LastEnvelope.isPreKeyMessage /\ ~last.hadSession))

\* C8 as stated: every envelope flagged isPreKeyMessage carries the
\* sender's identity DH key and the X3DH ephemeral public key.
C8_PreKeyEnvelopeCarriesKeys ==
    \A i \in 1..Len(wire) :
        wire[i].envelopeStr.envelope.isPreKeyMessage =>
            /\ wire[i].envelopeStr.envelope.senderIdentityDHKey =
                   toHex(client[wire[i].from].identityKey.dhPublicKey)
            /\ wire[i].envelopeStr.envelope.ephemeralKey # None

\* C9 as stated: every encrypt and decrypt through the session manager
\* uses as associated data the signing public key of the sender followed by
\* that of the recipient, on pre-key messages and on later ones.
C9_AssociatedDataNamesSender ==
    /\ (last.op = "send" /\ last.aad # None) =>
           last.aad = buildAssociatedData(
                          client[last.p].identityKey.publicKey,
                          client[Peer(last.p)].identityKey.publicKey)
    /\ (last.op = "receive" /\ last.aad # None) =>
           last.aad = buildAssociatedData(
                          client[wire[last.i].from].identityKey.publicKey,
                          client[last.p].identityKey.publicKey)

\* C10 as stated: handing a client a pre-key envelope it has already
\* processed fails, yields no plaintext and leaves the session stored for
\* the sender as it was.
C10_PreKeyReplayRejected ==
    [][(/\ last'.op = "receive"
        /\ last'.again
        /\ wire[last'.i].envelopeStr.envelope.isPreKeyMessage)
       => (/\ ~last'.ok
           /\ last'.plaintext = None
           /\ client'[last'.p].sessions = client[last'.p].sessions)]_vars

\* C17: an envelope whose registrationId differs from the one recorded
\* for its sender is rejected with SessionConflict and yields no plaintext.
\* The recorded id is the one in the sender's bundle, which the sender
\* wrote into the envelope; the relay handed the envelope with another.
C17_RegistrationIdMismatchRejected ==
    (/\ last.op = "receive"
     /\ LastEnvelope.registrationId = server[wire[last.i].from].bundle.registrationId
     /\ last.kind = "registrationId")
    => (~last.ok /\ last.err = "SessionConflict" /\ last.plaintext = None)

(* ------------------------------------------------------------------ *)
(* Properties of one-time pre-keys (specification SpecOpk)            *)
(* ------------------------------------------------------------------ *)

\* the entries of sequence q are pairwise different
NoRepeats(q) == \A i, j \in 1..Len(q) : q[i] = q[j] => i = j

\* C18: each one-time pre-key is used once.  The server hands a given
\* public half to at most one bundle request and holds it no longer; its
\* owner takes a given private half for at most one X3DH receive, and the
\* key is absent from the owner's store afterwards.
C18_OneTimePreKeyUsedOnce ==
    \A u \in Parties :
        /\ NoRepeats(issued[u])
        /\ \A i \in 1..Len(issued[u]) : \A j \in 1..Len(server[u].otpKeys) : server[u].otpKeys[j] # issued[u][i]
        /\ NoRepeats(taken[u])
        /\ \A i \in 1..Len(taken[u]) : \A o \in client[u].opks : o.keyId # taken[u][i].keyId

\* B's one-time pre-key went out with a bundle and B has taken it for an
\* X3DH receive; the envelope naming it has come a second time.
C18_Witness ==
    /\ Len(issued["B"]) = 1 /\ Len(taken["B"]) = 1
    /\ taken["B"][1].keyId = issued["B"][1].keyId
    /\ server["B"].otpKeys = <<>> /\ client["B"].opks = {}
    /\ last.op = "receive" /\ last.p = "B" /\ last.again
    /\ \E i \in 1..Len(wire) : /\ wire[i].to = "B" /\ handed[i] = 2
                               /\ wire[i].envelopeStr.envelope.usedOneTimePreKeyId # None

(* ------------------------------------------------------------------ *)
(* Properties of skipping (specification SpecSkip)                    *)
(* ------------------------------------------------------------------ *)

\* C11: in every reachable session state MKSkipped holds at most
\* MAX_CACHE_SIZE entries.
C11_CacheBounded ==
    \A p \in Parties : MapSize(sess[p].MKSkipped) <= MAX_CACHE_SIZE

\* B has decrypted three messages of A, each after MAX_SKIP lost ones: of
\* the 3 * MAX_SKIP keys it skipped it holds the newest MAX_CACHE_SIZE.
C11_Witness ==
    /\ last.op = "deliver" /\ last.ok /\ last.p = "B"
    /\ lost = 3
    /\ sess["B"].Nr = 3 * MAX_SKIP + 3
    /\ MapSize(sess["B"].MKSkipped) = MAX_CACHE_SIZE
    /\ ~MapHas(sess["B"].MKSkipped, cacheKeyOf(sess["B"].DHr, Num(0)))

\* C12 as stated: one ratchetDecrypt call never adds more than MAX_SKIP
\* skipped message keys, also when it takes a DH ratchet step.
C12_OneDecryptSkipsAtMostMaxSkip ==
    [][(last'.op = "deliver" /\ last'.ok) =>
           MapSize(sess'[last'.p].MKSkipped)
               - MapSize(sess[last'.p].MKSkipped) <= MAX_SKIP]_vars

\* A skip step of ratchetDecrypt(session, message) on an existing receiving
\* chain would have to advance by more than MAX_SKIP: the step up to
\* header.pn in the chain the receiver leaves, or the step up to header.n
\* in the chain of the message.
SkipTooFar(session, message) ==
    /\ ~MapHas(session.MKSkipped,
               cacheKeyOf(message.header.dhRatchetKey, message.header.n))
    /\ IF session.DHr = None \/ message.header.dhRatchetKey # session.DHr
       THEN \/ /\ session.CKr # None
               /\ NumLess(Num(session.Nr + MAX_SKIP), message.header.pn)
            \/ NumLess(Num(MAX_SKIP), message.header.n)
       ELSE NumLess(Num(session.Nr + MAX_SKIP), message.header.n)

\* C13: ratchetDecrypt fails with TooManySkipped exactly when a skip step
\* would have to advance an existing receiving chain by more than MAX_SKIP,
\* a gap of exactly MAX_SKIP is accepted, and on that failure the session
\* is unchanged.
C13_TooManySkippedExactly ==
    [][last'.op = "deliver" =>
           /\ (last'.err = "TooManySkipped") <=>
                  SkipTooFar(sess[last'.p],
                             sent[Peer(last'.p)][last'.i].message)
           /\ last'.err = "TooManySkipped" => sess' = sess]_vars

\* B, which has accepted a message MAX_SKIP ahead, is handed one that is
\* 2 * MAX_SKIP ahead and fails with TooManySkipped.
C13_Witness ==
    /\ last.op = "deliver" /\ ~last.ok /\ last.err = "TooManySkipped"
    /\ last.p = "B"
    /\ MapSize(sess["B"].MKSkipped) >= MAX_SKIP
    /\ sent["A"][last.i].message.header.n[2] = sess["B"].Nr + 2 * MAX_SKIP

(* ------------------------------------------------------------------ *)
(* Properties of the sending chain (specification Spec)               *)
(* ------------------------------------------------------------------ *)

\* C15: a session has no sending chain exactly while it is the one made by
\* initReceiverSession and has not decrypted a message yet; ratchetEncrypt
\* on it fails with NotInitialized and produces no message, and every
\* other ratchetEncrypt, those after the first decrypt included, succeeds.
C15_NotInitializedBeforeFirstDecrypt ==
    /\ \A p \in Parties : (sess[p].CKs = None) <=> (p = "B" /\ delivered["A"] = {})
    /\ delivered["A"] = {} => sent["B"] = <<>>
    /\ last.op = "encrypt" =>
         IF last.p = "B" /\ delivered["A"] = {}
         THEN ~last.ok /\ last.err = "NotInitialized" /\ last.i = 0
         ELSE last.ok /\ last.i = Len(sent[last.p]) /\ last.i > 0

\* B's ratchetEncrypt has failed before B decrypted anything, A's message
\* being on its way.
C15_Witness ==
    /\ last.op = "encrypt" /\ last.p = "B"
    /\ ~last.ok /\ last.err = "NotInitialized"
    /\ Len(sent["A"]) = 1 /\ delivered["A"] = {}
    /\ sess["B"].CKs = None

(* ------------------------------------------------------------------ *)
(* Properties of serialization (specification Spec)                   *)
(* ------------------------------------------------------------------ *)

\* C19: every reachable session state comes back from serializeSession
\* and deserializeSession equal in every field, the MKSkipped entries in
\* the order in which they were inserted.
C19_SerializationRoundTrip ==
    \A p \in Parties : deserializeSession(serializeSession(sess[p])) = sess[p]

\* a session with two skipped keys, a receiving and a sending chain
C19_Witness ==
    /\ MapSize(sess["B"].MKSkipped) = 2
    /\ sess["B"].CKr # None /\ sess["B"].CKs # None
    /\ serializeSession(sess["B"]).mkSkipped[1][1] = cacheKeyOf(sess["B"].DHr, Num(0))
    /\ serializeSession(sess["B"]).mkSkipped[2][1] = cacheKeyOf(sess["B"].DHr, Num(1))
    /\ deserializeSession(serializeSession(sess["B"])).MKSkipped = sess["B"].MKSkipped
    /\ sess["A"].CKr = None

(* ------------------------------------------------------------------ *)
(* Properties of a session value used twice (specification SpecRace)  *)
(* ------------------------------------------------------------------ *)

\* C14: no two different messages of one party are encrypted under the
\* same message key and the same header (ratchet key, n): two encrypts
\* started from one session value do not both take effect.
C14_NoTwoMessagesUnderOneKey ==
    \A p \in Parties : \A i, j \in 1..Len(sent[p]) :
        (/\ i # j
         /\ sent[p][i].message.header.dhRatchetKey = sent[p][j].message.header.dhRatchetKey
         /\ sent[p][i].message.header.n = sent[p][j].message.header.n
         /\ sent[p][i].message.ciphertext.key = sent[p][j].message.ciphertext.key)
        => sent[p][i].message = sent[p][j].message

(* ------------------------------------------------------------------ *)
(* Properties of the registration id (specification SpecRegId)        *)
(* ------------------------------------------------------------------ *)

\* C20: for every pair of random bytes the generated registration id lies
\* in 1..16380, and the server's registration schema accepts it.
C20_RegistrationIdAccepted ==
    /\ last.op = "generateIdentityKey" => last.registrationId \in 1..16380
    /\ last.op = "register" => last.accepted

(* ------------------------------------------------------------------ *)
(* Properties of media encryption (specification SpecMedia)           *)
(* ------------------------------------------------------------------ *)

\* what encryptMedia returned for the plaintext and the key of this run
MediaAsEncrypted == encryptMedia(last.plainBlob, last.k)

\* C21: decryptMedia returns the plaintext on what encryptMedia returned,
\* and fails without plaintext when a bit of the blob, of the media key or
\* of the digest differs; a changed blob or digest fails the digest check
\* whatever else is changed, and a changed key alone fails the MAC check,
\* so that AES-GCM is never opened on changed input.
C21_MediaRoundTripAndIntegrity ==
    last.op = "decryptMedia" =>
        /\ last.media = MediaAsEncrypted =>
               last.result.ok /\ last.result.plaintext = last.plainBlob
        /\ last.media # MediaAsEncrypted =>
               ~last.result.ok /\ last.result.plaintext = None
        /\ (last.media.encryptedBlob # MediaAsEncrypted.encryptedBlob \/ last.media.digest # MediaAsEncrypted.digest) =>
               last.result.err = "MediaIntegrity"
        /\ (last.media # MediaAsEncrypted /\ last.media.encryptedBlob = MediaAsEncrypted.encryptedBlob /\ last.media.digest = MediaAsEncrypted.digest) =>
               last.result.err = "MediaMac"

\* decryptMedia has refused a blob whose media key alone has a changed bit
C21_Witness ==
    /\ last.op = "decryptMedia"
    /\ last.media.mediaKey # MediaAsEncrypted.mediaKey
    /\ last.media.encryptedBlob = MediaAsEncrypted.encryptedBlob
    /\ last.media.digest = MediaAsEncrypted.digest
    /\ ~last.result.ok /\ last.result.err = "MediaMac"

(* ------------------------------------------------------------------ *)
(* Properties of the relay (specification SpecRelay)                  *)
(* ------------------------------------------------------------------ *)

\* message m has been written to a socket of B
RelayDelivered(m) ==
    \E s \in 1..Len(relay.sockets) : \E i \in 1..Len(relay.sockets[s].got) : relay.sockets[s].got[i] = m

\* B has an open socket whose 'auth' handler has finished
RecipientOnline ==
    \E s \in 1..Len(relay.sockets) : relay.sockets[s].readyState = OPEN /\ relay.sockets[s].pc = "done"

\* C22: every message for which A got a message_ack is eventually written
\* to a socket of B once B is connected and authenticated.
C22_AckedEventuallyDelivered ==
    \A m \in 1..MaxRelayed : (m <= Len(relay.acks) /\ RecipientOnline) ~> RelayDelivered(m)

(* ------------------------------------------------------------------ *)
(* Properties of the chains and counters of a session (Spec)          *)
(* ------------------------------------------------------------------ *)

\* party p has both chains
BothChains(p) == sess[p].CKs # None /\ sess[p].CKr # None

\* C23: while a party has decrypted nothing, the sender-initialised session
\* (A) has a sending chain and no receiving chain and the
\* receiver-initialised one (B) has neither; the first successful decrypt
\* gives A its receiving chain and B both chains; and once a session has
\* both chains, no step, successful or failed, leaves it without root
\* key, sending chain or receiving chain.
C23_ChainsAppearAndStay ==
    [][\A p \in Parties :
        /\ delivered[Peer(p)] = {} =>
               /\ sess[p].CKr = None
               /\ (sess[p].CKs # None) = (p = "A")
        /\ (delivered[Peer(p)] = {} /\ delivered'[Peer(p)] # {}) =>
               /\ sess'[p].CKr # None
               /\ sess'[p].CKs # None
        /\ BothChains(p) =>
               /\ sess'[p].RK # None
               /\ sess'[p].CKs # None
               /\ sess'[p].CKr # None]_vars

\* B, receiver-initialised, has decrypted its first message and has both
\* chains, after a call of its own that failed
C23_Witness ==
    /\ Cardinality(delivered["A"]) = 1
    /\ BothChains("B")
    /\ last.p = "B" /\ ~last.ok

(* ------------------------------------------------------------------ *)
(* Properties of one ratchetDecrypt (SpecLate)                        *)
(* ------------------------------------------------------------------ *)

\* the step is the successful ratchetDecrypt by p of message i of its peer
Decrypts(p, i) ==
    /\ i \in 1..Len(sent[Peer(p)])
    /\ i \notin delivered[Peer(p)]
    /\ i \in delivered'[Peer(p)]

\* the message key of message m is in the cache of party p
Cached(p, m) ==
    MapHas(sess[p].MKSkipped, cacheKeyOf(m.header.dhRatchetKey, m.header.n))

\* the ratchet key of message m is not the DHr of party p
NewRatchetKey(p, m) ==
    sess[p].DHr = None \/ m.header.dhRatchetKey # sess[p].DHr

\* the step has replaced the ratchet keys of p for message m
Ratcheted(p, m) ==
    /\ sess'[p].DHr = m.header.dhRatchetKey
    /\ sess'[p].DHs = generateDHKeyPair(nextKey)
    /\ sess'[p].DHs # sess[p].DHs
    /\ sess'[p].PN = sess[p].Ns
    /\ sess'[p].Ns = 0

\* the step has left the ratchet keys and the sending side of p alone
SendingSideKept(p) ==
    /\ sess'[p].DHs = sess[p].DHs
    /\ sess'[p].DHr = sess[p].DHr
    /\ sess'[p].RK = sess[p].RK
    /\ sess'[p].CKs = sess[p].CKs
    /\ sess'[p].Ns = sess[p].Ns
    /\ sess'[p].PN = sess[p].PN

\* C24 as stated: a successful ratchetDecrypt of a message whose ratchet
\* key differs from DHr (or with DHr absent) leaves DHr equal to that key,
\* DHs a fresh pair, PN the previous Ns and Ns 0; one of a message whose
\* ratchet key equals DHr changes none of DHs, DHr, RK, CKs, Ns, PN.
C24_RatchetOnEveryNewKey ==
    [][\A p \in Parties : \A i \in 1..MaxLateMsgs :
        Decrypts(p, i) =>
            IF NewRatchetKey(p, sent[Peer(p)][i].message)
            THEN Ratcheted(p, sent[Peer(p)][i].message)
            ELSE SendingSideKept(p)]_vars

\* C24, amended: the same for a message whose key is not in MKSkipped; a
\* successful ratchetDecrypt with a cached key, whatever the ratchet key of
\* the message, changes none of DHs, DHr, RK, CKs, Ns, PN.
C24_RatchetOnNewKeyUnlessCached ==
    [][\A p \in Parties : \A i \in 1..MaxLateMsgs :
        Decrypts(p, i) =>
            IF /\ NewRatchetKey(p, sent[Peer(p)][i].message)
               /\ ~Cached(p, sent[Peer(p)][i].message)
            THEN Ratcheted(p, sent[Peer(p)][i].message)
            ELSE SendingSideKept(p)]_vars

\* B has decrypted a message of A's second ratchet key, with a previous
\* number that is not 0, and then a late message of A's first one
C24_Witness ==
    /\ last.op = "deliver" /\ last.ok /\ last.p = "B"
    /\ LastMessage.header.dhRatchetKey # sess["B"].DHr
    /\ sess["A"].PN > 0
    /\ sess["B"].DHr = sess["A"].DHs.publicKey

(* ------------------------------------------------------------------ *)
(* Properties of one ratchetEncrypt (Spec)                            *)
(* ------------------------------------------------------------------ *)

\* C25: the message a successful ratchetEncrypt returns carries the
\* DHs.publicKey, PN and Ns of the session it was given, and the session it
\* returns is that session with CKs one chain step further and Ns one
\* higher: DHs, DHr, RK, CKr, Nr, PN and MKSkipped are the same.
C25_EncryptFrame ==
    [][\A p \in Parties :
        Len(sent'[p]) = Len(sent[p]) + 1 =>
            /\ sent'[p][Len(sent'[p])].message.header =
                   [dhRatchetKey |-> sess[p].DHs.publicKey,
                    pn |-> Num(sess[p].PN), n |-> Num(sess[p].Ns)]
            /\ sess'[p] = [sess[p] EXCEPT !.CKs = kdfChainKey(sess[p].CKs).nextChainKey,
                                          !.Ns = sess[p].Ns + 1]]_vars

\* a party has encrypted a message in a sending chain that is not its
\* first, after more than one message in the chain before
C25_Witness ==
    /\ last.op = "encrypt" /\ last.ok
    /\ sess[last.p].PN > 1
    /\ sess[last.p].Ns = 1
    /\ sent[last.p][last.i].message.header.pn = Num(sess[last.p].PN)

\* the cache keys of the messages from..(to - 1) of the chain of ratchet key
SkippedKeys(key, from, to) == {cacheKeyOf(key, Num(j)) : j \in from..(to - 1)}

\* the step has decrypted message m through the receiving chain of p, whose
\* ratchet key is that of m: the cache has gained the keys of the messages
\* from Nr up to the one before m, and lost none unless it was full
ChainAdvanced(p, m) ==
    /\ sess'[p].Nr = m.header.n[2] + 1
    /\ sess'[p].MKSkipped.keys \ sess[p].MKSkipped.keys =
           SkippedKeys(sess[p].DHr, sess[p].Nr, m.header.n[2])
    /\ MapSize(sess[p].MKSkipped) + m.header.n[2] - sess[p].Nr <= MAX_CACHE_SIZE =>
           /\ sess[p].MKSkipped.keys \subseteq sess'[p].MKSkipped.keys
           /\ MapSize(sess'[p].MKSkipped) =
                  MapSize(sess[p].MKSkipped) + m.header.n[2] - sess[p].Nr

\* the step has decrypted message m with its cached key: the entry is gone
\* from the cache of p, the others are there in the same order, and the
\* rest of the session is the same
CachedKeyUsed(p, m) ==
    /\ sess'[p].MKSkipped.keys =
           sess[p].MKSkipped.keys \ {cacheKeyOf(m.header.dhRatchetKey, m.header.n)}
    /\ sess'[p].MKSkipped.ord =
           SelectSeq(sess[p].MKSkipped.ord,
                     LAMBDA e : e[1] # cacheKeyOf(m.header.dhRatchetKey, m.header.n))
    /\ [sess'[p] EXCEPT !.MKSkipped = sess[p].MKSkipped] = sess[p]

EvictedBy(size, added) ==
    IF size + added > MAX_CACHE_SIZE THEN size + added - MAX_CACHE_SIZE ELSE 0

\* the cache after has the entries of the cache before without the first
\* evicted ones, in the same order, followed by added more
EvictedEarliest(before, after, added, evicted) ==
    /\ Len(after) = Len(before) + added - evicted
    /\ SubSeq(after, 1, Len(before) - evicted) =
           SubSeq(before, evicted + 1, Len(before))

\* C27: each key skipMessageKeys adds while MKSkipped holds MAX_CACHE_SIZE
\* entries evicts exactly one entry, the one inserted earliest among those
\* present, and a key added below that size evicts none: a decrypt that
\* adds keys to the cache leaves the entries it had, less as many of the
\* earliest as keys were added beyond MAX_CACHE_SIZE, in their order.
C27_EvictsEarliestWhenFull ==
    [][\A p \in Parties : \A i \in 1..MaxMsgs :
        Decrypts(p, i) =>
            EvictedEarliest(sess[p].MKSkipped.ord, sess'[p].MKSkipped.ord,
                            Cardinality(sess'[p].MKSkipped.keys \ sess[p].MKSkipped.keys),
                            EvictedBy(MapSize(sess[p].MKSkipped),
                                      Cardinality(sess'[p].MKSkipped.keys
                                                      \ sess[p].MKSkipped.keys)))]_vars

\* B's cache is full after a decrypt that has evicted the MAX_SKIP entries
\* inserted first
C27_Witness ==
    /\ last.op = "deliver" /\ last.ok /\ last.p = "B"
    /\ lost = 3
    /\ MapSize(sess["B"].MKSkipped) = MAX_CACHE_SIZE
    /\ Head(sess["B"].MKSkipped.ord)[1] = cacheKeyOf(sess["B"].DHr, Num(MAX_SKIP + 1))

(* ------------------------------------------------------------------ *)
(* Properties of the presence of the chain keys (SpecLate)            *)
(* ------------------------------------------------------------------ *)

\* the messages party p has encrypted under its current DHs key pair
EncryptedUnderDHs(p) ==
    {i \in 1..Len(sent[p]) :
        sent[p][i].message.header.dhRatchetKey = sess[p].DHs.publicKey}

\* the messages party p has decrypted under its current DHr
DecryptedUnderDHr(p) ==
    {i \in delivered[Peer(p)] :
        sent[Peer(p)][i].message.header.dhRatchetKey = sess[p].DHr}

\* C28 as stated: in every reachable session state, CKs is present exactly
\* when at least one message has been encrypted under the current DHs key
\* pair, and CKr exactly when at least one message has been decrypted
\* under the current DHr.
C28_ChainKeyPresentIffUsed ==
    \A p \in Parties :
        /\ (sess[p].CKs # None) = (EncryptedUnderDHs(p) # {})
        /\ (sess[p].CKr # None) = (DecryptedUnderDHr(p) # {})

\* C28, amended: CKs is present from initSenderSession and from each DH
\* ratchet step on, before any message is encrypted under the current DHs
\* key pair as well as after: it is absent exactly in the
\* receiver-initialised session (B) that has decrypted nothing; CKr is
\* present exactly when at least one message has been decrypted under the
\* current DHr.
C28_ChainKeyPresentFromRatchetOn ==
    \A p \in Parties :
        /\ (sess[p].CKs = None) = (p = "B" /\ delivered[Peer(p)] = {})
        /\ EncryptedUnderDHs(p) # {} => sess[p].CKs # None
        /\ (sess[p].CKr # None) = (DecryptedUnderDHr(p) # {})

\* A has sent, has decrypted a reply of B, and holds the sending chain of
\* its new key pair without having encrypted under it
C28_Witness ==
    /\ Len(sent["A"]) > 0
    /\ DecryptedUnderDHr("A") # {}
    /\ EncryptedUnderDHs("A") = {}
    /\ sess["A"].CKs # None

(* ------------------------------------------------------------------ *)
(* Properties of the stored sessions of CryptoManager (SpecSession)   *)
(* ------------------------------------------------------------------ *)

\* the envelopes of client c on the wire that carry an ephemeral key
WithEphemeralKey(c) ==
    {i \in 1..Len(wire) :
        wire[i].from = c /\ wire[i].envelopeStr.envelope.ephemeralKey # None}

\* C29: the pending X3DH context getOrCreateSession records for a contact
\* is attached to at most one envelope: the encrypt with isFirstMessage
\* true that follows uses it and removes it from the map, so that no entry
\* is left once the envelope is posted, and no later envelope for the
\* contact carries an ephemeral key: at most one envelope of a client does.
C29_PendingContextUsedOnce ==
    \A c \in Parties :
        /\ client[c].pendingX3dh[Peer(c)] = None
        /\ Cardinality(WithEphemeralKey(c)) <= 1
        /\ \A i \in WithEphemeralKey(c) :
               wire[i].envelopeStr.envelope.isPreKeyMessage
        /\ \A i \in 1..Len(wire) :
               (/\ wire[i].from = c
                /\ wire[i].envelopeStr.envelope.isPreKeyMessage
                /\ client[c].retains) => i \in WithEphemeralKey(c)

\* the step is the handler of client c run on envelope i
Receives(c, i) ==
    /\ i \in 1..Len(wire)
    /\ wire[i].to = c
    /\ Len(handed') = Len(handed)
    /\ handed'[i] = handed[i] + 1

\* C30: when decrypting an incoming envelope fails, the session stored for
\* its sender is what it was before the call, whether the envelope went
\* through processIncomingPreKeyMessage (the session derived from it is
\* not saved) or through decrypt with the stored session.
C30_FailedDecryptKeepsStoredSession ==
    [][\A c \in Parties : \A i \in 1..MaxEnvelopes :
        (Receives(c, i) /\ ~last'.ok) =>
            getSession(client'[c], wire[i].from) = getSession(client[c], wire[i].from)]_vars

\* a pre-key envelope has failed with AuthFailure at a client that holds a
\* session for its sender
C30_Witness ==
    /\ last.op = "receive" /\ ~last.ok
    /\ last.branch = "x3dh" /\ last.err = "AuthFailure"
    /\ getSession(client[last.p], Peer(last.p)) # None

(* ------------------------------------------------------------------ *)
(* Properties of the pre-key refill (SpecRotate)                      *)
(* ------------------------------------------------------------------ *)

\* C31: a pre-key envelope built from a bundle with the recipient's signed
\* pre-key is decrypted when it is handed to the recipient for the first
\* time, also when the recipient has generated and uploaded a new signed
\* pre-key while the envelope was on its way.
C31_InFlightPreKeyMessageDecrypts ==
    (/\ last.op = "receive"
     /\ last.branch = "x3dh"
     /\ ~last.again
     /\ LastEnvelope.ephemeralKey # None) => last.ok

(* ------------------------------------------------------------------ *)
(* Properties of the key ids (SpecKeyIds)                             *)
(* ------------------------------------------------------------------ *)

\* C32: generateOneTimePreKeys(startId, count) returns count keys with the
\* ids startId .. startId + count - 1 and never a key whose id is above
\* 2^24 - 1: a call, or a succession of batches, that would leave the
\* 24-bit id space returns no keys (it fails with ExhaustedKeyIds)
C32_KeyIdsStayBelowLimit ==
    last.op = "generateOneTimePreKeys" =>
        /\ \A j \in 1..Len(last.opks) : last.opks[j].keyId <= KeyIdLimit
        /\ IF last.startId + last.count - 1 > KeyIdLimit
           THEN last.opks = <<>>
           ELSE /\ Len(last.opks) = last.count
                /\ \A j \in 1..last.count : last.opks[j].keyId = last.startId + j - 1

(* ------------------------------------------------------------------ *)
(* Properties of the relay's sockets (SpecGateway)                    *)
(* ------------------------------------------------------------------ *)

\* the frames the relay has forwarded to a socket or put on an offline list
ForwardedFrames ==
    UNION {{relay.sockets[s].got[j] : j \in 1..Len(relay.sockets[s].got)} : s \in 1..Len(relay.sockets)}
    \cup UNION {{relay.queue[u][j] : j \in 1..Len(relay.queue[u])} : u \in Parties}

\* C33: the relay forwards or queues a message, receipt or typing frame
\* only for a socket on which a token was verified, and the 'from' of every
\* forwarded or queued frame is the user id verified on the socket the
\* frame came from
C33_ForwardedFromAuthenticated ==
    \A frame \in ForwardedFrames :
        /\ frame.from # ""
        /\ frame.from \in relay.sockets[frame.origin].verified

\* a frame of a socket without user id was refused, and a receipt of an
\* authenticated socket was forwarded
C33_Witness ==
    /\ last.op = "frame" /\ last.err = "UNAUTHORIZED"
    /\ \E frame \in ForwardedFrames : frame.type = "delivery_receipt"

\* C39: while a user has an authenticated open socket, the connections
\* map holds an open socket for that user; the close of an older socket of
\* the user does not take the entry of a newer one away
C39_OpenSocketStaysRegistered ==
    \A u \in Parties :
        (\E s \in 1..Len(relay.sockets) :
             /\ relay.sockets[s].readyState = OPEN
             /\ relay.sockets[s].authenticatedUserId = u)
        => /\ relay.connections[u] # 0
           /\ relay.sockets[relay.connections[u]].readyState = OPEN

(* ------------------------------------------------------------------ *)
(* Properties of the client's socket (SpecReconnect)                  *)
(* ------------------------------------------------------------------ *)

\* C40: after an unexpected close the client makes at most
\* maxReconnectAttempts reconnections in a row that do not lead to an
\* authenticated connection, also when the server accepts each connection
\* and closes it because the token is rejected
C40_ReconnectsAreBounded == relay.reconnects <= maxReconnectAttempts

(* ------------------------------------------------------------------ *)
(* The receiving chain follows the sending chain (SpecLate)           *)
(* ------------------------------------------------------------------ *)

\* C34: whenever a party decrypts a message through its receiving chain,
\* the DHr, CKr and Nr of the session it gets are the public key of DHs,
\* the CKs and the Ns its peer held right after encrypting that message
C34_ReceivingChainFollowsSender ==
    [][\A p \in Parties : \A i \in 1..MaxLateMsgs :
          (Decrypts(p, i) /\ ~Cached(p, sent[Peer(p)][i].message)) =>
              /\ sess'[p].DHr = sent[Peer(p)][i].held.DHs
              /\ sess'[p].CKr = sent[Peer(p)][i].held.CKs
              /\ sess'[p].Nr = sent[Peer(p)][i].held.Ns]_vars

\* B has decrypted, through the receiving chain and after a ratchet step
\* of its own, a message that A sent later than one B has not yet got
C34_Witness ==
    /\ last.op = "deliver" /\ last.ok /\ last.p = "B"
    /\ last.i > 1 /\ (last.i - 1) \notin delivered["A"]
    /\ sess["B"].Nr = LastMessage.header.n[2] + 1
    /\ sess["B"].DHr = LastMessage.header.dhRatchetKey
    /\ delivered["B"] # {}

(* ------------------------------------------------------------------ *)
(* Headers and message keys are used once (SpecLate)                  *)
(* ------------------------------------------------------------------ *)

\* the messages of the session, each as <<sender, index>>
SessionMessages == {e \in Parties \X (1..MaxLateMsgs) : e[2] <= Len(sent[e[1]])}

MessageOf(e) == sent[e[1]][e[2]].message

\* C35: when every call works on the session the call before returned, no
\* two ratchetEncrypt calls of a session produce the same pair of ratchet
\* key and counter n, and no message key encrypts more than one message
C35_HeaderAndKeyUsedOnce ==
    \A e1 \in SessionMessages : \A e2 \in SessionMessages \ {e1} :
        /\ <<MessageOf(e1).header.dhRatchetKey, MessageOf(e1).header.n>>
               # <<MessageOf(e2).header.dhRatchetKey, MessageOf(e2).header.n>>
        /\ MessageOf(e1).ciphertext.key # MessageOf(e2).ciphertext.key

\* A has encrypted two messages in one chain and, after a DH ratchet step,
\* one in the next chain with the counter of the first
C35_Witness ==
    \E i \in 1..MaxLateMsgs : \E j \in 1..MaxLateMsgs : \E k \in 1..MaxLateMsgs :
        /\ i < j /\ j < k /\ k <= Len(sent["A"])
        /\ sent["A"][i].message.header.dhRatchetKey = sent["A"][j].message.header.dhRatchetKey
        /\ sent["A"][i].message.header.n # sent["A"][j].message.header.n
        /\ sent["A"][k].message.header.dhRatchetKey # sent["A"][i].message.header.dhRatchetKey
        /\ sent["A"][k].message.header.n = sent["A"][i].message.header.n

(* ------------------------------------------------------------------ *)
(* Sessions created by both sides at once (SpecSession)               *)
(* ------------------------------------------------------------------ *)

\* the first envelopes of A and of B are i and j: each carries the
\* ephemeral key of an outgoing session that its sender, with the manager
\* that keeps the key, created before it was handed any envelope
Crossed(i, j) ==
    /\ \A c \in Parties : client[c].retains
    /\ wire[i].from = "A" /\ \A k \in 1..(i - 1) : wire[k].from # "A"
    /\ wire[j].from = "B" /\ \A k \in 1..(j - 1) : wire[k].from # "B"
    /\ wire[i].envelopeStr.envelope.ephemeralKey # None
    /\ wire[j].envelopeStr.envelope.ephemeralKey # None
    /\ wire[i].heard = {} /\ wire[j].heard = {}

\* the step is a handleSend that posts an envelope
Posts ==
    /\ Len(wire') = Len(wire) + 1
    /\ last'.op = "send"

\* the envelope the step has posted decrypts at its recipient
PostedDecrypts ==
    onMessage(client'[wire'[Len(wire')].to], wire'[Len(wire')].from,
              wire'[Len(wire')].envelopeStr, nextKey').result.ok

\* C36: if both clients create an outgoing session before either receives
\* the other's pre-key message, then once both pre-key messages are
\* delivered and processed, a message that either side sends decrypts at
\* the other
C36_CrossedSessionsConverge ==
    [][\A i \in 1..Len(wire) : \A j \in 1..Len(wire) :
          (/\ Crossed(i, j)
           /\ i \in processed["B"] /\ j \in processed["A"]
           /\ Posts)
          => PostedDecrypts]_vars

(* ------------------------------------------------------------------ *)
(* Overlapping getOrCreateSession calls (SpecOverlap)                 *)
(* ------------------------------------------------------------------ *)

\* the step is a getOrCreateSession call of client c that resumes with the
\* bundle it asked for and runs X3DH
RunsX3dh(c) ==
    /\ fetching[c] # <<>>
    /\ fetching'[c] = Tail(fetching[c])

\* C37: for a contact without stored session, overlapping getOrCreateSession
\* calls create at most one outgoing session: a call that resumes when
\* another has stored a session does not run X3DH again, and leaves the
\* stored session and the pending context as they are
C37_OneOutgoingSession ==
    [][\A c \in Parties :
          (/\ RunsX3dh(c)
           /\ \A i \in 1..Len(wire) : wire[i].to = c => handed[i] = 0)
          => getSession(client[c], Peer(c)) = None]_vars

(* ------------------------------------------------------------------ *)
(* The one-time pre-keys of a failed handshake (SpecRotate)           *)
(* ------------------------------------------------------------------ *)

\* C38: when processIncomingPreKeyMessage fails, the local store of
\* one-time pre-keys is left as it was
C38_FailedHandshakeKeepsPreKeys ==
    [][\A c \in Parties : \A i \in 1..MaxEnvelopes :
          (Receives(c, i) /\ last'.branch = "x3dh" /\ ~last'.ok)
          => client'[c].opks = client[c].opks]_vars

====
